---- MODULE Spec2Model ----
(***************************************************************************)
(* State-machine model of the beehero colony pipeline:                     *)
(*   - OutlierRemover   (src/src/data/outlier_remover/component.py)        *)
(*   - FeaturesPreprocessor and its feature_store steps                    *)
(*                      (src/src/data/preprocessor/component.py)           *)
(*   - FullPipelinePyFunc and train_model                                  *)
(*                      (src/src/models/pyfunc_wrapper.py, src/src/train.py)*)
(*   - the /predict endpoint and ModelService (src/src/api)                *)
(* A DataFrame is a column set plus an ordered sequence of rows, each row  *)
(* carrying its index label (the row identifier) and one value per column. *)
(* A raised exception is recorded by its Python class name.                *)
(***************************************************************************)
EXTENDS Integers, Sequences, FiniteSets, TLC

\* remover:      the OutlierRemover instance (config, _group_means)
\* preprocessor: the FeaturesPreprocessor instance (steps, fitted_steps_)
\* sklearn_pipeline: the steps of the scikit-learn Pipeline after its
\*               'preprocessor' step: the feature selector and the classifier
\* service:      the ModelService instance (model_uri, model)
\* transformer:  a feature_store transformer used on its own
\* call:         the last call made and not yet consumed: operation, arguments,
\*               the instance at entry, and the outcome
\* hist:         history of the run: what the data of the last completed
\*               OutlierRemover.fit held, whether FeaturesPreprocessor.fit was
\*               ever entered, and whether its last call returned normally
\* threads:      the predict calls in progress on one model, one per thread:
\*               where the call is, its local tables, and its outcome
VARIABLES remover, preprocessor, sklearn_pipeline, service, transformer, call, hist,
          threads

vars == <<remover, preprocessor, sklearn_pipeline, service, transformer, call, hist,
          threads>>

\* ------------------------------------------------------------------ bounds
\* Largest number of rows of an enumerated table.
MaxRows == 2
\* Number of threads that call predict on one model.
NumThreads == 2
\* Largest number of StepConfigs given to a FeaturesPreprocessor.
MaxSteps == 2

\* ----------------------------------------------------------- common values
\* Python's None, where an optional table or Series is absent.
None == [kind |-> "None"]
NoError == "none"
NoCall == [op |-> "idle"]

\* A float cell is the fraction <<numerator, denominator>>; NaN is 0/0.
Float(n) == <<n, 1>>
NaN == <<0, 0>>
\* A missing group key (NaN in an object column).
NaNKey == "NaN"

RECURSIVE GCD(_, _)
GCD(a, b) == IF b = 0 THEN a ELSE GCD(b, a % b)

Abs(n) == IF n < 0 THEN 0 - n ELSE n

\* The float n/d in lowest terms (d > 0).
Reduce(n, d) == LET g == GCD(Abs(n), d) IN <<n \div g, d \div g>>

\* The sum of a sequence of present floats, as an unreduced fraction.
RECURSIVE SeqSum(_)
SeqSum(s) ==
    IF s = <<>> THEN <<0, 1>>
    ELSE LET h == Head(s)
             t == SeqSum(Tail(s))
         IN  <<h[1] * t[2] + t[1] * h[2], h[2] * t[2]>>

Range(s) == {s[i] : i \in DOMAIN s}

\* The element of a one-element set.  Only({F(x) : x \in {e}}) is F(e) with e
\* computed once, whatever the number of times F uses it.
Only(S) == CHOOSE x \in S : TRUE

\* The index labels of an n-row table: unique, as read_csv numbers them (1..n)
\* or in the opposite order (as after a shuffling split).
IndexOrders(n) == {[i \in 1..n |-> i], [i \in 1..n |-> n + 1 - i]}

\* pandas DataFrame: the dtype of each column, and the rows in order; row.id is
\* the index label, row.v the cell of each column.
DataFrame(dtypes, rows) == [kind |-> "DataFrame", dtypes |-> dtypes, rows |-> rows]

\* df.columns
columns(df) == DOMAIN df.dtypes

\* pandas Series: entries in order; entry.id is the index label.
Series(rows) == [kind |-> "Series", rows |-> rows]

\* len(df)
len(df) == Len(df.rows)

\* df.index
index(df) == [i \in 1..Len(df.rows) |-> df.rows[i].id]

\* ------------------------------------------------- OutlierRemover: inputs
\* OutlierRemoverConfig as the tests build it; the thresholds vary.
Ranges == {<<10, 50>>, <<20, 60>>}

OutlierRemoverConfig(lo, hi) ==
    [group_by_column |-> "sensor_id", temperature_column |-> "temperature_sensor",
     min_temp_threshold |-> lo, max_temp_threshold |-> hi]

Configs == {OutlierRemoverConfig(r[1], r[2]) : r \in Ranges}

GroupKeys == {"A", "B", NaNKey}
Temps == {Float(10), Float(60), NaN}
FilterCols == {"sensor_id", "temperature_sensor"}

\* The values of one row over a column set: sensor_id holds a key, any other
\* column a float.
RowValues(cols) ==
    {[c \in cols |-> IF c = "sensor_id" THEN g ELSE t] : g \in GroupKeys, t \in Temps}

FilterDtypes(cols) == [c \in cols |-> IF c = "sensor_id" THEN "object" ELSE "float64"]

TablesOver(cols) ==
    UNION {{DataFrame(FilterDtypes(cols), [i \in 1..n |-> [id |-> ids[i], v |-> vs[i]]]) :
                ids \in IndexOrders(n), vs \in [1..n -> RowValues(cols)]} :
           n \in 0..MaxRows}

\* tests/test_outlier_remover.py sample_data (sensor_id, temperature_sensor).
SampleRow(i, g, t) == [id |-> i, v |-> [c \in FilterCols |->
                          IF c = "sensor_id" THEN g ELSE Float(t)]]
sample_data ==
    DataFrame([c \in FilterCols |-> IF c = "sensor_id" THEN "object" ELSE "int64"],
      <<SampleRow(0, "A", 20), SampleRow(1, "A", 22), SampleRow(2, "A", 21),
        SampleRow(3, "B", 55), SampleRow(4, "B", 54),
        SampleRow(5, "C", 12), SampleRow(6, "C", 11), SampleRow(7, "C", 13),
        SampleRow(8, "C", 12)>>)

FilterTables ==
    TablesOver(FilterCols) \cup TablesOver({"sensor_id"})
        \cup TablesOver({"temperature_sensor"}) \cup {sample_data}

\* A label Series sharing X's index; the label of the row with index label i is
\* 100 + i (pairwise distinct labels make every misalignment visible).
LabelsFor(X) ==
    Series([i \in 1..len(X) |-> [id |-> X.rows[i].id, val |-> X.rows[i].id + 100]])

\* ---------------------------------------------- OutlierRemover: operations
\* Series.mean(): NaN is skipped; the mean of no value is NaN, else the sum of
\* the present cells over their count, in lowest terms.
mean(vals) ==
    LET present == SelectSeq(vals, LAMBDA x : x # NaN)
        s == SeqSum(present)
        n == Len(present)
    IN  IF n = 0 THEN NaN ELSE Reduce(s[1], s[2] * n)

\* X.groupby(by)[col].mean(): one entry per non-missing key of X.
groupby_mean(X, by, col) ==
    LET keys == {X.rows[i].v[by] : i \in 1..len(X)} \ {NaNKey}
    IN  [k \in keys |->
            LET grp == SelectSeq(X.rows, LAMBDA r : r.v[by] = k)
            IN  mean([i \in 1..Len(grp) |-> grp[i].v[col]])]

\* Mutant of merged_mean: an unseen key is filled with a value that passes the filter.
merged_mean_filled(group_means, key) ==
    IF key \in DOMAIN group_means THEN group_means[key] ELSE Float(30)

\* The statistic a row gets from X.merge(..., how='left'): NaN for an unseen key.
merged_mean(group_means, key) ==
    IF key \in DOMAIN group_means THEN group_means[key] ELSE NaN

\* m >= t and m <= t on a float that may be NaN (every comparison with NaN is False).
ge(m, t) == m # NaN /\ m[1] >= t * m[2]
le(m, t) == m # NaN /\ m[1] <= t * m[2]

\* Mutant of mask: the bounds are exclusive.
mask_exclusive(config, m) ==
    /\ m # NaN
    /\ m[1] > config.min_temp_threshold * m[2]
    /\ m[1] < config.max_temp_threshold * m[2]

\* The filter mask of OutlierRemover.transform, for one merged statistic.
mask(config, m) ==
    ge(m, config.min_temp_threshold) /\ le(m, config.max_temp_threshold)

\* y.loc[labels]: for each requested label, every entry of y carrying it, in y's
\* order.
RECURSIVE loc(_, _)
loc(y, labels) ==
    IF labels = <<>> THEN <<>>
    ELSE SelectSeq(y.rows, LAMBDA e : e.id = Head(labels)) \o loc(y, Tail(labels))

\* y.loc raises KeyError when a requested label is not in y's index.
loc_raises(y, labels) ==
    \E i \in 1..Len(labels) : \A j \in 1..Len(y.rows) : y.rows[j].id # labels[i]

Raise(self, kind, detail) ==
    [self |-> self, raised |-> kind, detail |-> detail, X |-> None, y |-> None,
     removed |-> 0]

Return(self, X, y, removed) ==
    [self |-> self, raised |-> NoError, detail |-> {}, X |-> X, y |-> y,
     removed |-> removed]

\* No attribute _group_means yet.
NoGroupMeans == [k \in {} |-> NaN]

\* OutlierRemover.__init__
OutlierRemover_init(config) ==
    [config |-> config, has_group_means |-> FALSE, group_means |-> NoGroupMeans]

\* Mutant of fit_group_means: the new means are merged into the stored ones.
fit_group_means_merged(self, X) ==
    LET new == groupby_mean(X, self.config.group_by_column, self.config.temperature_column)
    IN  [k \in DOMAIN new \cup DOMAIN self.group_means |->
            IF k \in DOMAIN new THEN new[k] ELSE self.group_means[k]]

\* The value fit stores in self._group_means.
fit_group_means(self, X) ==
    groupby_mean(X, self.config.group_by_column, self.config.temperature_column)

\* Mutant of OutlierRemover.fit: the column check passes when any one required
\* column is present, so the groupby meets the missing one.
OutlierRemover_fit_any(self, X) ==
    LET required_cols == {self.config.group_by_column, self.config.temperature_column}
    IN  IF required_cols \cap columns(X) = {}
        THEN Raise(self, "ValueError", required_cols)
        ELSE IF ~(required_cols \subseteq columns(X))
        THEN Raise(self, "KeyError", required_cols \ columns(X))
        ELSE Return([self EXCEPT !.has_group_means = TRUE,
                                 !.group_means = fit_group_means(self, X)],
                    None, None, 0)

\* Mutant of OutlierRemover.fit: what the instance learned is discarded before
\* the columns are validated.
OutlierRemover_fit_resetting(self, X) ==
    LET required_cols == {self.config.group_by_column, self.config.temperature_column}
    IN  IF ~(required_cols \subseteq columns(X))
        THEN Raise([self EXCEPT !.has_group_means = FALSE, !.group_means = NoGroupMeans],
                   "ValueError", required_cols)
        ELSE Return([self EXCEPT !.has_group_means = TRUE,
                                 !.group_means = fit_group_means(self, X)],
                    None, None, 0)

\* OutlierRemover.fit
OutlierRemover_fit(self, X) ==
    LET required_cols == {self.config.group_by_column, self.config.temperature_column}
    IN  IF ~(required_cols \subseteq columns(X))
        THEN Raise(self, "ValueError", required_cols)
        ELSE Return([self EXCEPT !.has_group_means = TRUE,
                                 !.group_means = fit_group_means(self, X)],
                    None, None, 0)

\* mean_col_name = f"_temp_mean_{self.config.group_by_column}", for the
\* configured group column.
mean_col_name(self) == "_temp_mean_sensor_id"

\* X.merge(self._group_means.rename(mean_col_name), left_on=group_by_column,
\* right_index=True, how='left'): a new table, X's rows under X's index, each
\* with its group's statistic in the added column.
merge_group_means(self, X) ==
    LET c == mean_col_name(self)
        cols == columns(X) \cup {c}
    IN  DataFrame([k \in cols |-> IF k = c THEN "float64" ELSE X.dtypes[k]],
          [i \in 1..len(X) |->
              [id |-> X.rows[i].id,
               v |-> [k \in cols |->
                        IF k = c
                        THEN merged_mean(self.group_means,
                                         X.rows[i].v[self.config.group_by_column])
                        ELSE X.rows[i].v[k]]]])

\* df.drop(columns=cols): a new table without the columns.
drop(df, cols) ==
    DataFrame([k \in columns(df) \ cols |-> df.dtypes[k]],
      [i \in 1..len(df) |->
          [id |-> df.rows[i].id, v |-> [k \in columns(df) \ cols |-> df.rows[i].v[k]]]])

\* Mutant of filtered_rows: the surviving rows are renumbered (reset_index).
filtered_rows_reset_index(self, X) ==
    LET kept == SelectSeq(merge_group_means(self, X).rows, LAMBDA r :
                   mask(self.config, r.v[mean_col_name(self)]))
    IN  [i \in 1..Len(kept) |-> [kept[i] EXCEPT !.id = i - 1]]

\* The rows of X_transformed[mask]
filtered_rows(self, X) ==
    SelectSeq(merge_group_means(self, X).rows, LAMBDA r :
        mask(self.config, r.v[mean_col_name(self)]))

\* Mutant of filtered_labels: the labels are taken by position (y.iloc).
filtered_labels_positional(y, X_filtered) == Series(SubSeq(y.rows, 1, len(X_filtered)))

\* y.loc[X_filtered.index]
filtered_labels(y, X_filtered) == Series(loc(y, index(X_filtered)))

\* Mutant of transform_fitted: transform relearns the group means from its table.
transform_fitted_relearning(self, X, y) ==
    IF self.config.group_by_column \notin columns(X)
    THEN Raise(self, "KeyError", {self.config.group_by_column})
    ELSE LET initial_rows == len(X)
             X_transformed == merge_group_means(self, X)
             X_filtered == drop(DataFrame(X_transformed.dtypes, filtered_rows(self, X)),
                                {mean_col_name(self)})
             rows_removed == initial_rows - len(X_filtered)
             relearned == IF self.config.temperature_column \in columns(X)
                          THEN [self EXCEPT !.group_means = fit_group_means(self, X)]
                          ELSE self
         IN  IF initial_rows = 0
             THEN Raise(self, "ZeroDivisionError", {})
             ELSE IF y = None
             THEN Return(relearned, X_filtered, None, rows_removed)
             ELSE IF loc_raises(y, index(X_filtered))
             THEN Raise(self, "KeyError", {})
             ELSE Return(relearned, X_filtered, filtered_labels(y, X_filtered), rows_removed)

\* OutlierRemover.transform past its fitted check: merge, mask, drop the
\* statistic column, report, align y.
transform_fitted(self, X, y) ==
    IF self.config.group_by_column \notin columns(X)
    THEN Raise(self, "KeyError", {self.config.group_by_column})
    ELSE LET initial_rows == len(X)
             X_transformed == merge_group_means(self, X)
             X_filtered == drop(DataFrame(X_transformed.dtypes, filtered_rows(self, X)),
                                {mean_col_name(self)})
             rows_removed == initial_rows - len(X_filtered)
         IN  IF initial_rows = 0
             THEN Raise(self, "ZeroDivisionError", {})
             ELSE IF y = None
             THEN Return(self, X_filtered, None, rows_removed)
             ELSE IF loc_raises(y, index(X_filtered))
             THEN Raise(self, "KeyError", {})
             ELSE Return(self, X_filtered, filtered_labels(y, X_filtered), rows_removed)

\* The table the caller passed to transform, as the caller holds it after the
\* call: merge, boolean indexing and drop each return a new table, and nothing
\* is assigned into X.
table_after_transform(self, X) == X

\* Mutant of OutlierRemover.transform: the fitted check is missing.
OutlierRemover_transform_unchecked(self, X, y) == transform_fitted(self, X, y)

\* OutlierRemover.transform
OutlierRemover_transform(self, X, y) ==
    IF ~self.has_group_means
    THEN Raise(self, "NotFittedError", {})
    ELSE transform_fitted(self, X, y)

\* Mutant of OutlierRemover.fit_transform: the table is filtered with the group
\* means the instance held before the fit.
OutlierRemover_fit_transform_stale(self, X, y) ==
    LET fitted == OutlierRemover_fit(self, X)
    IN  IF fitted.raised # NoError THEN fitted
        ELSE LET out == OutlierRemover_transform(
                            [fitted.self EXCEPT !.group_means = self.group_means], X, y)
             IN  [out EXCEPT !.self = fitted.self]

\* OutlierRemover.fit_transform: self.fit(X), then self.transform(X, y).
OutlierRemover_fit_transform(self, X, y) ==
    LET fitted == OutlierRemover_fit(self, X)
    IN  IF fitted.raised # NoError THEN fitted
        ELSE OutlierRemover_transform(fitted.self, X, y)

\* ------------------------------------------------ feature_store: the steps
\* A dict given as **params: a function from parameter names; a list is a
\* sequence, the aggregations dict a sequence of <<column, <<function, ...>>>>.
NoParams == <<>>

Param(params, name, default) == IF name \in DOMAIN params THEN params[name] ELSE default

\* The outcome of a step's fit or transform: the step (with what it learned), the
\* table returned, or the exception raised.
StepOk(step, X) == [raised |-> NoError, detail |-> {}, step |-> step, X |-> X]
StepRaise(step, kind, detail) == [raised |-> kind, detail |-> detail, step |-> step, X |-> None]

\* FeatureTransformer._validate_columns: the required columns the table lacks.
missing_columns(df, required_cols) == Range(required_cols) \ columns(df)

\* a - b and abs(a - b) on floats; NaN propagates.
sub(a, b) == IF a = NaN \/ b = NaN THEN NaN ELSE Reduce(a[1] * b[2] - b[1] * a[2], a[2] * b[2])
absf(a) == IF a = NaN THEN NaN ELSE <<Abs(a[1]), a[2]>>
\* a > t (False for NaN).
gt(a, t) == a # NaN /\ a[1] * t[2] > t[1] * a[2]

\* Series.max(): the largest present cell, NaN when there is none.
max(vals) ==
    LET present == {vals[i] : i \in DOMAIN vals} \ {NaN}
    IN  IF present = {} THEN NaN
        ELSE CHOOSE x \in present : \A z \in present : x[1] * z[2] >= z[1] * x[2]

\* df with column c set to the given cells, one per row, of dtype d (df[c] = ...).
assign(df, c, d, cells) ==
    DataFrame([k \in columns(df) \cup {c} |-> IF k = c THEN d ELSE df.dtypes[k]],
              [i \in 1..Len(df.rows) |->
                  [id |-> df.rows[i].id,
                   v |-> [k \in columns(df) \cup {c} |->
                            IF k = c THEN cells[i] ELSE df.rows[i].v[k]]]])

\* The classes of module src.data.preprocessor.feature_store, with the keyword
\* parameters each constructor requires and accepts.
Signature ==
    [IntToFloatConverter |-> [required |-> {}, accepted |-> {"columns"}],
     MeanImputer |-> [required |-> {"input_cols"}, accepted |-> {"input_cols"}],
     GroupedAggregator |->
        [required |-> {"input_cols", "groupby_col", "aggregations", "output_cols"},
         accepted |-> {"input_cols", "groupby_col", "aggregations", "output_cols"}],
     ColumnSubtractor |->
        [required |-> {"input_cols", "output_col", "col_a", "col_b"},
         accepted |-> {"input_cols", "output_col", "col_a", "col_b"}],
     AbsoluteDifference |->
        [required |-> {"input_cols", "output_col", "col_a", "col_b"},
         accepted |-> {"input_cols", "output_col", "col_a", "col_b"}],
     ThresholdBinarizer |->
        [required |-> {"input_col", "output_col", "threshold"},
         accepted |-> {"input_col", "output_col", "threshold"}]]

\* What each __init__ leaves in the learned attribute: columns_to_convert_ = []
\* (kept as a set of columns), imputation_values_ = {}, agg_df_ = None; the
\* other classes have none.
NothingLearned(cls) == IF cls = "IntToFloatConverter" THEN {} ELSE <<>>

\* transformer_class(**params)
new_transformer(cls, params) ==
    [cls |-> cls, params |-> params, learned |-> NothingLearned(cls)]

\* --- IntToFloatConverter
int_columns(X) == {c \in columns(X) : X.dtypes[c] = "int64"}

IntToFloatConverter_fit(self, X) ==
    LET cols == Param(self.params, "columns", <<>>)
    IN  IF cols # <<>>
        THEN IF missing_columns(X, cols) # {}
             THEN StepRaise(self, "ValueError", missing_columns(X, cols))
             ELSE StepOk([self EXCEPT !.learned = Range(cols)], None)
        ELSE StepOk([self EXCEPT !.learned = int_columns(X)], None)

IntToFloatConverter_transform(self, X) ==
    LET to_convert == self.learned
    IN  StepOk(self, DataFrame([c \in columns(X) |->
                                  IF c \in to_convert THEN "float64" ELSE X.dtypes[c]],
                               X.rows))

\* --- MeanImputer
column_cells(X, c) == [i \in 1..Len(X.rows) |-> X.rows[i].v[c]]

MeanImputer_fit(self, X) ==
    LET cols == self.params["input_cols"]
    IN  IF missing_columns(X, cols) # {}
        THEN StepRaise(self, "ValueError", missing_columns(X, cols))
        ELSE StepOk([self EXCEPT !.learned =
                        [c \in DOMAIN self.learned \cup Range(cols) |->
                            IF c \in Range(cols) THEN mean(column_cells(X, c))
                            ELSE self.learned[c]]],
                    None)

\* Mutant of MeanImputer.transform: the means are learned again from the table
\* it is given and kept on the instance.
MeanImputer_transform_relearning(self, X) ==
    LET values == [c \in DOMAIN self.learned |->
                      IF c \in columns(X) THEN mean(column_cells(X, c))
                      ELSE self.learned[c]]
    IN  StepOk([self EXCEPT !.learned = values],
               DataFrame(X.dtypes,
                   [i \in 1..Len(X.rows) |->
                       [id |-> X.rows[i].id,
                        v |-> [c \in columns(X) |->
                                 IF c \in DOMAIN values /\ X.rows[i].v[c] = NaN
                                 THEN values[c] ELSE X.rows[i].v[c]]]]))

\* X.fillna(self.imputation_values_)
MeanImputer_transform(self, X) ==
    LET values == self.learned
    IN  StepOk(self,
               DataFrame(X.dtypes,
                   [i \in 1..Len(X.rows) |->
                       [id |-> X.rows[i].id,
                        v |-> [c \in columns(X) |->
                                 IF c \in DOMAIN values /\ X.rows[i].v[c] = NaN
                                 THEN values[c] ELSE X.rows[i].v[c]]]]))

\* --- GroupedAggregator
\* The columns .agg(aggregations) produces, in order: <<column, function>>.
RECURSIVE agg_columns(_)
agg_columns(aggregations) ==
    IF aggregations = <<>> THEN <<>>
    ELSE LET col == Head(aggregations)[1]
             funcs == Head(aggregations)[2]
         IN  [i \in 1..Len(funcs) |-> <<col, funcs[i]>>] \o agg_columns(Tail(aggregations))

agg_value(func, vals) == IF func = "mean" THEN mean(vals) ELSE max(vals)

GroupedAggregator_fit(self, X) ==
    LET input_cols == self.params["input_cols"]
        groupby_col == self.params["groupby_col"]
        aggs == agg_columns(self.params["aggregations"])
        output_cols == self.params["output_cols"]
        required == input_cols \o <<groupby_col>>
        keys == {X.rows[i].v[groupby_col] : i \in 1..Len(X.rows)} \ {NaNKey}
    IN  IF missing_columns(X, required) # {}
        THEN StepRaise(self, "ValueError", missing_columns(X, required))
        ELSE IF \E i \in 1..Len(aggs) : aggs[i][1] \notin columns(X)
        THEN StepRaise(self, "KeyError", {aggs[i][1] : i \in 1..Len(aggs)} \ columns(X))
        ELSE IF Len(output_cols) # Len(aggs)
        THEN StepRaise(self, "ValueError", {})
        ELSE StepOk([self EXCEPT !.learned =
                        [k \in keys |->
                            [i \in 1..Len(aggs) |->
                                LET grp == SelectSeq(X.rows, LAMBDA r : r.v[groupby_col] = k)
                                IN  agg_value(aggs[i][2],
                                              [j \in 1..Len(grp) |-> grp[j].v[aggs[i][1]]])]]],
                    None)

GroupedAggregator_transform(self, X) ==
    LET groupby_col == self.params["groupby_col"]
        output_cols == self.params["output_cols"]
        agg_df == self.learned
        pos(c) == CHOOSE i \in 1..Len(output_cols) : output_cols[i] = c
    IN  IF missing_columns(X, <<groupby_col>>) # {}
        THEN StepRaise(self, "ValueError", missing_columns(X, <<groupby_col>>))
        ELSE IF Range(output_cols) \cap columns(X) # {}
        THEN StepRaise(self, "ValueError", Range(output_cols))
        ELSE StepOk(self,
               DataFrame([c \in columns(X) \cup Range(output_cols) |->
                            IF c \in columns(X) THEN X.dtypes[c] ELSE "float64"],
                   [i \in 1..Len(X.rows) |->
                       [id |-> X.rows[i].id,
                        v |-> [c \in columns(X) \cup Range(output_cols) |->
                                 IF c \in columns(X) THEN X.rows[i].v[c]
                                 ELSE IF X.rows[i].v[groupby_col] \in DOMAIN agg_df
                                 THEN agg_df[X.rows[i].v[groupby_col]][pos(c)]
                                 ELSE NaN]]]))

\* --- ColumnSubtractor, AbsoluteDifference
difference_fit(self, X) ==
    IF missing_columns(X, self.params["input_cols"]) # {}
    THEN StepRaise(self, "ValueError", missing_columns(X, self.params["input_cols"]))
    ELSE StepOk(self, None)

difference_dtype(X, a, b) ==
    IF X.dtypes[a] = "int64" /\ X.dtypes[b] = "int64" THEN "int64" ELSE "float64"

\* Mutant of ColumnSubtractor.transform: an existing output column is overwritten.
ColumnSubtractor_transform_overwriting(self, X) ==
    LET out == self.params["output_col"]
        a == self.params["col_a"]
        b == self.params["col_b"]
        cells == [i \in 1..Len(X.rows) |-> sub(X.rows[i].v[a], X.rows[i].v[b])]
    IN  IF missing_columns(X, self.params["input_cols"]) # {}
        THEN StepRaise(self, "ValueError", missing_columns(X, self.params["input_cols"]))
        ELSE IF {a, b} \ columns(X) # {}
        THEN StepRaise(self, "KeyError", {a, b} \ columns(X))
        ELSE StepOk(self, assign(X, out, difference_dtype(X, a, b), cells))

ColumnSubtractor_transform(self, X) ==
    LET out == self.params["output_col"]
        a == self.params["col_a"]
        b == self.params["col_b"]
        cells == [i \in 1..Len(X.rows) |-> sub(X.rows[i].v[a], X.rows[i].v[b])]
    IN  IF missing_columns(X, self.params["input_cols"]) # {}
        THEN StepRaise(self, "ValueError", missing_columns(X, self.params["input_cols"]))
        ELSE IF out \in columns(X)
        THEN StepRaise(self, "ValueError", {out})
        ELSE IF {a, b} \ columns(X) # {}
        THEN StepRaise(self, "KeyError", {a, b} \ columns(X))
        ELSE StepOk(self, assign(X, out, difference_dtype(X, a, b), cells))

AbsoluteDifference_transform(self, X) ==
    LET out == self.params["output_col"]
        a == self.params["col_a"]
        b == self.params["col_b"]
        cells == [i \in 1..Len(X.rows) |-> absf(sub(X.rows[i].v[a], X.rows[i].v[b]))]
    IN  IF missing_columns(X, self.params["input_cols"]) # {}
        THEN StepRaise(self, "ValueError", missing_columns(X, self.params["input_cols"]))
        ELSE IF out \in columns(X)
        THEN StepRaise(self, "ValueError", {out})
        ELSE IF {a, b} \ columns(X) # {}
        THEN StepRaise(self, "KeyError", {a, b} \ columns(X))
        ELSE StepOk(self, assign(X, out, difference_dtype(X, a, b), cells))

\* --- ThresholdBinarizer
ThresholdBinarizer_fit(self, X) ==
    IF missing_columns(X, <<self.params["input_col"]>>) # {}
    THEN StepRaise(self, "ValueError", missing_columns(X, <<self.params["input_col"]>>))
    ELSE StepOk(self, None)

ThresholdBinarizer_transform(self, X) ==
    LET out == self.params["output_col"]
        cells == [i \in 1..Len(X.rows) |->
                    IF gt(X.rows[i].v[self.params["input_col"]], self.params["threshold"])
                    THEN Float(1) ELSE Float(0)]
    IN  IF missing_columns(X, <<self.params["input_col"]>>) # {}
        THEN StepRaise(self, "ValueError", missing_columns(X, <<self.params["input_col"]>>))
        ELSE IF out \in columns(X)
        THEN StepRaise(self, "ValueError", {out})
        ELSE StepOk(self, assign(X, out, "int64", cells))

\* transformer.fit(X), by the transformer's class
step_fit(self, X) ==
    CASE self.cls = "IntToFloatConverter" -> IntToFloatConverter_fit(self, X)
      [] self.cls = "MeanImputer" -> MeanImputer_fit(self, X)
      [] self.cls = "GroupedAggregator" -> GroupedAggregator_fit(self, X)
      [] self.cls = "ColumnSubtractor" -> difference_fit(self, X)
      [] self.cls = "AbsoluteDifference" -> difference_fit(self, X)
      [] self.cls = "ThresholdBinarizer" -> ThresholdBinarizer_fit(self, X)

\* transformer.transform(X), by the transformer's class
step_transform(self, X) ==
    CASE self.cls = "IntToFloatConverter" -> IntToFloatConverter_transform(self, X)
      [] self.cls = "MeanImputer" -> MeanImputer_transform(self, X)
      [] self.cls = "GroupedAggregator" -> GroupedAggregator_transform(self, X)
      [] self.cls = "ColumnSubtractor" -> ColumnSubtractor_transform(self, X)
      [] self.cls = "AbsoluteDifference" -> AbsoluteDifference_transform(self, X)
      [] self.cls = "ThresholdBinarizer" -> ThresholdBinarizer_transform(self, X)

\* Mutant of a step's transform: the step works on the table it is given, which
\* is the returned table when the call ends.
table_after_step_transform_in_place(self, X) ==
    IF step_transform(self, X).raised = NoError THEN step_transform(self, X).X ELSE X

\* The table the caller passed to a step's transform, as the caller holds it
\* after the call: every transform works on X.copy() or on the result of merge.
table_after_step_transform(self, X) == X

\* ------------------------------------------- preprocessor: step resolver
\* A class path is the sequence of its dot-separated segments.
DEFAULT_MODULE_PREFIX == <<"src", "data", "preprocessor">>

\* class_path.startswith("src.data.preprocessor.")
starts_with_default(class_path) ==
    Len(class_path) > Len(DEFAULT_MODULE_PREFIX)
        /\ SubSeq(class_path, 1, Len(DEFAULT_MODULE_PREFIX)) = DEFAULT_MODULE_PREFIX

\* The path _create_transformer_from_config imports: a dotted path outside the
\* default prefix whose first segment is not "src" gets the prefix.
expanded_path(class_path) ==
    IF Len(class_path) >= 2 /\ ~starts_with_default(class_path) /\ class_path[1] # "src"
    THEN DEFAULT_MODULE_PREFIX \o class_path
    ELSE class_path

\* importlib.import_module + getattr: the importable module that holds the step
\* classes, and the classes it defines.
feature_store_module == <<"src", "data", "preprocessor", "feature_store">>
feature_store_classes == DOMAIN Signature

\* The outcome of _create_transformer_from_config: the transformer, or the
\* exception raised.
Created(t) == [raised |-> NoError, transformer |-> t]
NotCreated(kind) == [raised |-> kind, transformer |-> None]

create_transformer_from_config(config) ==
    LET class_path == expanded_path(config.class_path)
        n == Len(class_path)
    IN  IF n < 2
        THEN NotCreated("ImportError")
        ELSE LET module_path == SubSeq(class_path, 1, n - 1)
                 class_name == class_path[n]
             IN  IF module_path # feature_store_module \/ class_name \notin feature_store_classes
                 THEN NotCreated("ImportError")
                 ELSE IF ~(/\ Signature[class_name].required \subseteq DOMAIN config.params
                           /\ DOMAIN config.params \subseteq Signature[class_name].accepted)
                 THEN NotCreated("TypeError")
                 ELSE Created(new_transformer(class_name, config.params))

\* --------------------------------------------------- FeaturesPreprocessor
\* FeaturesPreprocessor.__init__: no attribute fitted_steps_ yet.
FeaturesPreprocessor_init(steps) ==
    [steps |-> steps, has_fitted_steps |-> FALSE, fitted_steps |-> <<>>]

\* The outcome of the loop of fit or transform: the exception raised, the fitted
\* steps so far, the running table, and the step operations done in order
\* (<<"create", i>>, <<"fit", i>>, <<"transform", i>>: the operation was entered).
Loop(raised, detail, fitted_steps, df, trace) ==
    [raised |-> raised, detail |-> detail, fitted_steps |-> fitted_steps, df |-> df,
     trace |-> trace]

\* Mutant of the loop of fit: the table a step's transform returns is dropped, so
\* every step is fitted on the table fit was given.
RECURSIVE fit_loop_not_cumulative(_, _, _, _, _)
fit_loop_not_cumulative(steps, i, fitted_steps, df_temp, trace) ==
    IF i > Len(steps) THEN Loop(NoError, {}, fitted_steps, df_temp, trace)
    ELSE LET made == create_transformer_from_config(steps[i])
             trace1 == Append(trace, <<"create", i>>)
         IN  IF made.raised # NoError
             THEN Loop(made.raised, {}, fitted_steps, df_temp, trace1)
             ELSE LET fitted == step_fit(made.transformer, df_temp)
                      trace2 == Append(trace1, <<"fit", i>>)
                  IN  IF fitted.raised # NoError
                      THEN Loop(fitted.raised, fitted.detail, fitted_steps, df_temp, trace2)
                      ELSE LET appended == Append(fitted_steps, fitted.step)
                               out == step_transform(fitted.step, df_temp)
                               trace3 == Append(trace2, <<"transform", i>>)
                           IN  IF out.raised # NoError
                               THEN Loop(out.raised, out.detail, appended, df_temp, trace3)
                               ELSE fit_loop_not_cumulative(steps, i + 1, appended,
                                                            df_temp, trace3)

\* The for loop of FeaturesPreprocessor.fit from step i on.
RECURSIVE fit_loop(_, _, _, _, _)
fit_loop(steps, i, fitted_steps, df_temp, trace) ==
    IF i > Len(steps) THEN Loop(NoError, {}, fitted_steps, df_temp, trace)
    ELSE LET made == create_transformer_from_config(steps[i])
             trace1 == Append(trace, <<"create", i>>)
         IN  IF made.raised # NoError
             THEN Loop(made.raised, {}, fitted_steps, df_temp, trace1)
             ELSE LET fitted == step_fit(made.transformer, df_temp)
                      trace2 == Append(trace1, <<"fit", i>>)
                  IN  IF fitted.raised # NoError
                      THEN Loop(fitted.raised, fitted.detail, fitted_steps, df_temp, trace2)
                      ELSE LET appended == Append(fitted_steps, fitted.step)
                               out == step_transform(fitted.step, df_temp)
                               trace3 == Append(trace2, <<"transform", i>>)
                           IN  IF out.raised # NoError
                               THEN Loop(out.raised, out.detail, appended, df_temp, trace3)
                               ELSE fit_loop(steps, i + 1, appended, out.X, trace3)

\* The outcome of a FeaturesPreprocessor call.
PRaise(self, kind, detail, trace) ==
    [self |-> self, raised |-> kind, detail |-> detail, X |-> None, metadata |-> <<>>,
     trace |-> trace]
PReturn(self, X, metadata, trace) ==
    [self |-> self, raised |-> NoError, detail |-> {}, X |-> X, metadata |-> metadata,
     trace |-> trace]

\* What fit leaves in self.fitted_steps_: the list it created on entry, with
\* every transformer appended before the loop ended or raised.
fitted_steps_after(self, loop) == loop.fitted_steps

\* X.copy(): fit and transform run their steps on a copy, and the table the
\* caller passed is as it was when the call ends.
table_after_preprocessor_call(X) == X

\* FeaturesPreprocessor.fit
FeaturesPreprocessor_fit(self, X) ==
    LET loop == fit_loop(self.steps, 1, <<>>, X, <<>>)
        self1 == [self EXCEPT !.has_fitted_steps = TRUE,
                              !.fitted_steps = fitted_steps_after(self, loop)]
    IN  IF loop.raised # NoError
        THEN PRaise(self1, loop.raised, loop.detail, loop.trace)
        ELSE PReturn(self1, None, <<>>, loop.trace)

\* Mutant of the loop of transform: a step that raises is skipped and the loop
\* goes on with the table it had.
RECURSIVE transform_loop_skipping(_, _, _, _)
transform_loop_skipping(fitted_steps, i, df_current, trace) ==
    IF i > Len(fitted_steps) THEN Loop(NoError, {}, fitted_steps, df_current, trace)
    ELSE LET out == step_transform(fitted_steps[i], df_current)
             trace1 == Append(trace, <<"transform", i>>)
         IN  IF out.raised # NoError
             THEN transform_loop_skipping(fitted_steps, i + 1, df_current, trace1)
             ELSE transform_loop_skipping(fitted_steps, i + 1, out.X, trace1)

\* Mutant of the loop of transform: every step is given the table transform was
\* given, and that table is returned.
RECURSIVE transform_loop_not_chained(_, _, _, _)
transform_loop_not_chained(fitted_steps, i, df_current, trace) ==
    IF i > Len(fitted_steps) THEN Loop(NoError, {}, fitted_steps, df_current, trace)
    ELSE LET out == step_transform(fitted_steps[i], df_current)
             trace1 == Append(trace, <<"transform", i>>)
         IN  IF out.raised # NoError
             THEN Loop(out.raised, out.detail, fitted_steps, df_current, trace1)
             ELSE transform_loop_not_chained(fitted_steps, i + 1, df_current, trace1)

\* The for loop of FeaturesPreprocessor.transform from fitted step i on.
RECURSIVE transform_loop(_, _, _, _)
transform_loop(fitted_steps, i, df_current, trace) ==
    IF i > Len(fitted_steps) THEN Loop(NoError, {}, fitted_steps, df_current, trace)
    ELSE LET out == step_transform(fitted_steps[i], df_current)
             trace1 == Append(trace, <<"transform", i>>)
         IN  IF out.raised # NoError
             THEN Loop(out.raised, out.detail, fitted_steps, df_current, trace1)
             ELSE transform_loop(fitted_steps, i + 1, out.X, trace1)

\* FeaturesPreprocessor.transform past its hasattr check.
transform_steps(self, X) ==
    LET loop == transform_loop(self.fitted_steps, 1, X, <<>>)
    IN  IF loop.raised # NoError
        THEN PRaise(self, loop.raised, loop.detail, loop.trace)
        ELSE PReturn(self, loop.df, <<>>, loop.trace)

\* Mutant of FeaturesPreprocessor.transform: the hasattr check is missing.
FeaturesPreprocessor_transform_unchecked(self, X) == transform_steps(self, X)

\* FeaturesPreprocessor.transform
FeaturesPreprocessor_transform(self, X) ==
    IF ~self.has_fitted_steps
    THEN PRaise(self, "RuntimeError", {}, <<>>)
    ELSE transform_steps(self, X)

\* hashlib.sha256(inspect.getsource(cls)): one digest per class.
source_hash(cls) == <<"sha256", cls>>

StepMetadataConfig(config, step_instance) ==
    [name |-> config.name, class_path |-> config.class_path, params |-> config.params,
     source_hash |-> source_hash(step_instance.cls)]

Min(a, b) == IF a < b THEN a ELSE b

\* FeaturesPreprocessor.get_metadata
FeaturesPreprocessor_get_metadata(self) ==
    IF ~self.has_fitted_steps \/ self.fitted_steps = <<>>
    THEN PRaise(self, "RuntimeError", {}, <<>>)
    ELSE PReturn(self, None,
                 [i \in 1..Min(Len(self.steps), Len(self.fitted_steps)) |->
                     StepMetadataConfig(self.steps[i], self.fitted_steps[i])],
                 <<>>)

\* ------------------------------------------------- preprocessor: inputs
StepConfig(name, class_path, params) ==
    [name |-> name, class_path |-> class_path, params |-> params]

\* The step declarations of tests/test_preprocessor.py get_steps, then further
\* declarations: the other two step classes, a class the module lacks,
\* parameters the constructor rejects, and a step on a column an earlier step
\* makes.
StepCatalogue ==
    <<StepConfig("int_to_float", <<"feature_store", "IntToFloatConverter">>,
                 [columns |-> <<"int_col">>]),
      StepConfig("mean_imputer", <<"feature_store", "MeanImputer">>,
                 [input_cols |-> <<"float_col">>]),
      StepConfig("column_subtractor", <<"feature_store", "ColumnSubtractor">>,
                 [input_cols |-> <<"float_col", "int_col">>, output_col |-> "diff_col",
                  col_a |-> "float_col", col_b |-> "int_col"]),
      StepConfig("threshold_binarizer", <<"feature_store", "ThresholdBinarizer">>,
                 [input_col |-> "float_col", output_col |-> "bin_col",
                  threshold |-> <<3, 2>>]),
      StepConfig("absolute_difference", <<"feature_store", "AbsoluteDifference">>,
                 [input_cols |-> <<"float_col", "int_col">>, output_col |-> "abs_col",
                  col_a |-> "int_col", col_b |-> "float_col"]),
      StepConfig("grouped_aggregator", <<"feature_store", "GroupedAggregator">>,
                 [input_cols |-> <<"float_col">>, groupby_col |-> "sensor_id",
                  aggregations |-> <<<<"float_col", <<"mean", "max">>>>>>,
                  output_cols |-> <<"float_mean", "float_max">>]),
      StepConfig("unknown_class", <<"feature_store", "NoSuchStep">>, NoParams),
      StepConfig("bad_params", <<"feature_store", "MeanImputer">>,
                 [columns |-> <<"float_col">>]),
      StepConfig("diff_imputer", <<"feature_store", "MeanImputer">>,
                 [input_cols |-> <<"diff_col">>])>>

\* The StepConfig lists a FeaturesPreprocessor is built from.
StepLists ==
    UNION {{[i \in 1..n |-> StepCatalogue[pick[i]]] : pick \in [1..n -> DOMAIN StepCatalogue]} :
           n \in 0..MaxSteps}

PrepDtypes(cols) ==
    [c \in cols |-> IF c = "sensor_id" THEN "object"
                    ELSE IF c = "int_col" THEN "int64" ELSE "float64"]

PrepRow(cols, id, g, i, f, d) ==
    [id |-> id, v |-> [c \in cols |-> IF c = "sensor_id" THEN g
                                     ELSE IF c = "int_col" THEN i
                                     ELSE IF c = "float_col" THEN f ELSE d]]

AllPrepCols == {"sensor_id", "int_col", "float_col"}

\* tests/test_preprocessor.py get_df, with a group key per row.
get_df ==
    DataFrame(PrepDtypes(AllPrepCols),
      <<PrepRow(AllPrepCols, 0, "A", Float(1), Float(1), NaN),
        PrepRow(AllPrepCols, 1, "A", Float(2), Float(2), NaN),
        PrepRow(AllPrepCols, 2, "B", Float(3), NaN, NaN),
        PrepRow(AllPrepCols, 3, "B", Float(4), Float(4), NaN)>>)

\* test_error_on_missing_column's table: float_col alone.
df_missing_column ==
    DataFrame(PrepDtypes({"float_col"}),
      <<PrepRow({"float_col"}, 0, "A", NaN, Float(1), NaN),
        PrepRow({"float_col"}, 1, "A", NaN, Float(2), NaN),
        PrepRow({"float_col"}, 2, "A", NaN, Float(3), NaN),
        PrepRow({"float_col"}, 3, "A", NaN, Float(4), NaN)>>)

\* Other data: another index order, other values, a group get_df lacks.
df_other ==
    DataFrame(PrepDtypes(AllPrepCols),
      <<PrepRow(AllPrepCols, 7, "A", Float(2), NaN, NaN),
        PrepRow(AllPrepCols, 5, "C", Float(0), Float(5), NaN)>>)

\* A table that already holds a column named diff_col.
df_with_diff_col ==
    DataFrame(PrepDtypes(AllPrepCols \cup {"diff_col"}),
      <<PrepRow(AllPrepCols \cup {"diff_col"}, 0, "A", Float(1), Float(3), Float(9)),
        PrepRow(AllPrepCols \cup {"diff_col"}, 1, "B", Float(2), NaN, Float(9))>>)

\* A table without rows.
df_empty == DataFrame(PrepDtypes(AllPrepCols), <<>>)

PrepTables == {get_df, df_missing_column, df_other, df_with_diff_col, df_empty}

\* ------------------------------------------- the scikit-learn Pipeline
\* ColumnTransformer([('selector', 'passthrough', feature_columns)],
\* remainder='drop'): the cells of the feature columns, row by row, as an array
\* (the index is not part of it); ValueError when a feature column is absent.
Selected(array) == [raised |-> NoError, array |-> array]
NotSelected(kind) == [raised |-> kind, array |-> <<>>]

ColumnTransformer_transform(feature_columns, X) ==
    IF Range(feature_columns) \ columns(X) # {}
    THEN NotSelected("ValueError")
    ELSE Selected([i \in 1..len(X) |->
                      [j \in 1..Len(feature_columns) |-> X.rows[i].v[feature_columns[j]]]])

\* The dtype of np.unique over str labels.
LabelDtype == "object"

\* The estimator classes importable as model_class_path.
ModelClasses == {"sklearn.ensemble.RandomForestClassifier"}

\* ColonyStrengthClassifier.__init__; nan_support tells whether the installed
\* estimator accepts missing cells (it depends on the scikit-learn release).
ColonyStrengthClassifier_init(config, nan_support) ==
    [config |-> config, nan_support |-> nan_support, has_model |-> FALSE,
     classes |-> {}, classes_dtype |-> "None", model |-> <<>>]

has_nan(array) == \E i \in DOMAIN array : \E j \in DOMAIN array[i] : array[i][j] = NaN

Fitted(c) == [raised |-> NoError, classifier |-> c]
NotFittedClassifier(c, kind) == [raised |-> kind, classifier |-> c]

\* ColonyStrengthClassifier.fit: the estimator is created and fitted; as the
\* trained model it keeps one label per training row (a prediction is a
\* function of the row's cells alone, valued in the learned classes).
ColonyStrengthClassifier_fit(self, array, y) ==
    IF self.config.model_class_path \notin ModelClasses
    THEN NotFittedClassifier(self, "ImportError")
    ELSE IF Len(array) = 0 \/ (has_nan(array) /\ ~self.nan_support)
    THEN NotFittedClassifier(self, "ValueError")
    ELSE Fitted([self EXCEPT !.has_model = TRUE,
                             !.classes = {y.rows[i].val : i \in 1..Len(y.rows)},
                             !.classes_dtype = LabelDtype,
                             !.model = [i \in 1..Len(array) |->
                                          [row |-> array[i], label |-> y.rows[i].val]]])

\* self._model.predict on one row.
model_predict(model, row) ==
    IF \E i \in DOMAIN model : model[i].row = row
    THEN model[CHOOSE i \in DOMAIN model :
                   model[i].row = row /\ \A k \in DOMAIN model : model[k].row = row => i <= k].label
    ELSE model[1].label

Predicted(array) == [raised |-> NoError, array |-> array]
NotPredicted(kind) == [raised |-> kind, array |-> <<>>]

\* ColonyStrengthClassifier.predict: one prediction per row of the array.
ColonyStrengthClassifier_predict(self, array) ==
    IF ~self.has_model THEN NotPredicted("AttributeError")
    ELSE IF Len(array) = 0 \/ (has_nan(array) /\ ~self.nan_support)
    THEN NotPredicted("ValueError")
    ELSE Predicted([i \in 1..Len(array) |-> model_predict(self.model, array[i])])

\* The outcome of Pipeline.fit or Pipeline.predict: the pipeline's steps after
\* the call, the exception raised, the predictions, and the components entered.
PipelineOutcome(raised, preprocessor_, pipeline, array, trace) ==
    [raised |-> raised, preprocessor |-> preprocessor_, sklearn_pipeline |-> pipeline,
     array |-> array, trace |-> trace]

\* Pipeline(steps=[preprocessor, feature_selector, classifier]) before fit.
Pipeline_init(feature_columns, model_config, nan_support) ==
    [feature_columns |-> feature_columns,
     classifier |-> ColonyStrengthClassifier_init(model_config, nan_support)]

\* sklearn_pipeline.fit(X, y): fit_transform of the preprocessor and of the
\* feature selector, then the classifier's fit.
Pipeline_fit(preprocessor_, pipeline, X, y) ==
    Only({
      IF fit1.raised # NoError
      THEN PipelineOutcome(fit1.raised, fit1.self, pipeline, <<>>, <<>>)
      ELSE Only({
        IF out1.raised # NoError
        THEN PipelineOutcome(out1.raised, out1.self, pipeline, <<>>, <<>>)
        ELSE Only({
          IF sel.raised # NoError
          THEN PipelineOutcome(sel.raised, out1.self, pipeline, <<>>, <<>>)
          ELSE Only({
            PipelineOutcome(clf.raised, out1.self,
                            [pipeline EXCEPT !.classifier = clf.classifier], <<>>, <<>>) :
            clf \in {ColonyStrengthClassifier_fit(pipeline.classifier, sel.array, y)}}) :
          sel \in {ColumnTransformer_transform(pipeline.feature_columns, out1.X)}}) :
        out1 \in {FeaturesPreprocessor_transform(fit1.self, X)}}) :
      fit1 \in {FeaturesPreprocessor_fit(preprocessor_, X)}})

\* sklearn_pipeline.predict(X): the preprocessor's transform, the selector's
\* transform, the classifier's predict.
Pipeline_predict(preprocessor_, pipeline, X) ==
    Only({
      IF out1.raised # NoError
      THEN PipelineOutcome(out1.raised, out1.self, pipeline, <<>>,
                           <<"preprocessor.transform">>)
      ELSE Only({
        IF sel.raised # NoError
        THEN PipelineOutcome(sel.raised, out1.self, pipeline, <<>>,
                             <<"preprocessor.transform", "feature_selector.transform">>)
        ELSE Only({
          PipelineOutcome(pred.raised, out1.self, pipeline, pred.array,
                          <<"preprocessor.transform", "feature_selector.transform",
                            "classifier.predict">>) :
          pred \in {ColonyStrengthClassifier_predict(pipeline.classifier, sel.array)}}) :
        sel \in {ColumnTransformer_transform(pipeline.feature_columns, out1.X)}}) :
      out1 \in {FeaturesPreprocessor_transform(preprocessor_, X)}})

\* ------------------------------------------------------ FullPipelinePyFunc
\* FullPipelinePyFunc.__init__: the fitted components, held by reference.
FullPipelinePyFunc_init(outlier_remover, preprocessor_, pipeline) ==
    [outlier_remover |-> outlier_remover, preprocessor |-> preprocessor_,
     sklearn_pipeline |-> pipeline]

\* pd.Series(values, index=..., name=..., dtype=...)
PredSeries(rows, dtype, name) ==
    [kind |-> "Series", rows |-> rows, dtype |-> dtype, name |-> name]

\* The outcome of FullPipelinePyFunc.predict: the components after the call,
\* the exception raised, the Series returned, the filter's surviving table, and
\* the components entered in order.
PredictRaise(self, kind, cleaned_x, trace) ==
    [self |-> self, raised |-> kind, out |-> None, cleaned_x |-> cleaned_x, trace |-> trace]
PredictReturn(self, out, cleaned_x, trace) ==
    [self |-> self, raised |-> NoError, out |-> out, cleaned_x |-> cleaned_x, trace |-> trace]

\* Mutant of final_index: the predictions get a fresh RangeIndex.
final_index_positional(cleaned_x) == [i \in 1..len(cleaned_x) |-> i - 1]

\* final_index = cleaned_x.index
final_index(cleaned_x) == index(cleaned_x)

\* The outcome of predict once the pipeline has predicted on cleaned_x: its
\* exception, or the predictions as a Series under final_index.
predictions_of(self, res, cleaned_x, trace) ==
    LET self1 == [self EXCEPT !.preprocessor = res.preprocessor,
                              !.sklearn_pipeline = res.sklearn_pipeline]
    IN  IF res.raised # NoError
        THEN PredictRaise(self1, res.raised, cleaned_x, trace \o res.trace)
        ELSE PredictReturn(self1,
                PredSeries([i \in 1..Len(res.array) |->
                               [id |-> final_index(cleaned_x)[i], val |-> res.array[i]]],
                           LabelDtype, "prediction"),
                cleaned_x, trace \o res.trace)

\* Mutant of predict_cleaned: the empty table takes the same path as any other.
predict_cleaned_always(self, cleaned_x, trace) ==
    Only({predictions_of(self, res, cleaned_x, trace) :
          res \in {Pipeline_predict(self.preprocessor, self.sklearn_pipeline, cleaned_x)}})

\* FullPipelinePyFunc.predict after the filter: the empty Series of the
\* classes' dtype when no row survived, else the pipeline's predictions on the
\* surviving table under its index.
predict_cleaned(self, cleaned_x, trace) ==
    IF len(cleaned_x) = 0 \/ columns(cleaned_x) = {}
    THEN IF ~self.sklearn_pipeline.classifier.has_model
         THEN PredictRaise(self, "AttributeError", cleaned_x, trace)
         ELSE PredictReturn(self,
                 PredSeries(<<>>, self.sklearn_pipeline.classifier.classes_dtype, "None"),
                 cleaned_x, trace)
    ELSE Only({predictions_of(self, res, cleaned_x, trace) :
               res \in {Pipeline_predict(self.preprocessor, self.sklearn_pipeline,
                                         cleaned_x)}})

\* Mutant of FullPipelinePyFunc.predict: the filter is refitted on the table it
\* is given.
FullPipelinePyFunc_predict_refitting(self, model_input) ==
    Only({
      IF filtered.raised # NoError
      THEN PredictRaise([self EXCEPT !.outlier_remover = filtered.self], filtered.raised,
                        None, <<"outlier_remover.transform">>)
      ELSE predict_cleaned([self EXCEPT !.outlier_remover = filtered.self], filtered.X,
                           <<"outlier_remover.transform">>) :
      filtered \in {OutlierRemover_fit_transform(self.outlier_remover, model_input, None)}})

\* FullPipelinePyFunc.predict
FullPipelinePyFunc_predict(self, model_input) ==
    Only({
      IF filtered.raised # NoError
      THEN PredictRaise([self EXCEPT !.outlier_remover = filtered.self], filtered.raised,
                        None, <<"outlier_remover.transform">>)
      ELSE predict_cleaned([self EXCEPT !.outlier_remover = filtered.self], filtered.X,
                           <<"outlier_remover.transform">>) :
      filtered \in {OutlierRemover_transform(self.outlier_remover, model_input, None)}})

\* The table the caller passed to predict, as the caller holds it after the
\* call: the filter and every step work on new tables.
table_after_predict(self, model_input) == model_input

\* The outcome of train_model: the FullPipelinePyFunc, or the exception raised.
Trained(m) == [raised |-> NoError, model |-> m]
NotTrained(kind) == [raised |-> kind, model |-> None]

\* train_model (nan_support: see ColonyStrengthClassifier_init)
train_model(X_train, y_train, config, nan_support) ==
    Only({
      IF fitted.raised # NoError THEN NotTrained(fitted.raised)
      ELSE Only({
        IF clean.raised # NoError THEN NotTrained(clean.raised)
        ELSE Only({
          IF pipe.raised # NoError THEN NotTrained(pipe.raised)
          ELSE Trained(FullPipelinePyFunc_init(clean.self, pipe.preprocessor,
                                               pipe.sklearn_pipeline)) :
          pipe \in {Pipeline_fit(FeaturesPreprocessor_init(config.data_preprocessor),
                                 Pipeline_init(config.training.feature_columns,
                                               config.model, nan_support),
                                 clean.X, clean.y)}}) :
        clean \in {OutlierRemover_transform(fitted.self, X_train, y_train)}}) :
      fitted \in {OutlierRemover_fit(OutlierRemover_init(config.outlier_remover), X_train)}})

\* ---------------------------------------------------- the pipeline: inputs
ComposerCols == {"sensor_id", "temperature_sensor", "int_col", "float_col"}

ComposerRow(cols, id, g, t, i, f) ==
    [id |-> id, v |-> [c \in cols |-> IF c = "sensor_id" THEN g
                                     ELSE IF c = "temperature_sensor" THEN t
                                     ELSE IF c = "int_col" THEN i ELSE f]]

\* The training table: the groups of sample_data with the columns of get_df.
X_train ==
    DataFrame(PrepDtypes(ComposerCols),
      <<ComposerRow(ComposerCols, 0, "A", Float(20), Float(1), Float(1)),
        ComposerRow(ComposerCols, 1, "A", Float(22), Float(2), Float(2)),
        ComposerRow(ComposerCols, 2, "B", Float(55), Float(3), NaN),
        ComposerRow(ComposerCols, 3, "C", Float(12), Float(4), Float(4))>>)

y_train ==
    Series(<<[id |-> 0, val |-> "Strong"], [id |-> 1, val |-> "Weak"],
             [id |-> 2, val |-> "Weak"], [id |-> 3, val |-> "Strong"]>>)

\* The step declarations of a trained pipeline, by position in StepCatalogue.
ComposerStepLists ==
    {[i \in 1..Len(pick) |-> StepCatalogue[pick[i]]] :
        pick \in {<<>>, <<1, 2>>, <<2, 3>>, <<6>>}}

FeatureColumns == {<<"float_col">>, <<"int_col", "float_col">>, <<"float_col", "diff_col">>}

PipelineConfig(range, steps, feature_columns) ==
    [outlier_remover |-> OutlierRemoverConfig(range[1], range[2]),
     data_preprocessor |-> steps,
     model |-> [model_class_path |-> "sklearn.ensemble.RandomForestClassifier",
                hyperparameters |-> <<>>],
     training |-> [feature_columns |-> feature_columns]]

\* The models train_model returns on the training table.
TrainedModels ==
    {t.model : t \in {tm \in {train_model(X_train, y_train,
                                          PipelineConfig(r, steps, fc), nan_support) :
                                  r \in Ranges, steps \in ComposerStepLists,
                                  fc \in FeatureColumns, nan_support \in BOOLEAN} :
                          tm.raised = NoError}}

\* Raw tables given to predict: groups seen at training (A, B) and not (D), a
\* temperature of the row's own inside every range, a feature cell present or
\* missing.
RawValues(cols) ==
    {[c \in cols |-> IF c = "sensor_id" THEN g
                     ELSE IF c = "temperature_sensor" THEN Float(30)
                     ELSE IF c = "int_col" THEN Float(1) ELSE f] :
        g \in {"A", "B", "D"}, f \in {Float(1), NaN}}

RawTablesOver(cols) ==
    UNION {{DataFrame(PrepDtypes(cols), [i \in 1..n |-> [id |-> ids[i], v |-> vs[i]]]) :
                ids \in IndexOrders(n), vs \in [1..n -> RawValues(cols)]} :
           n \in 0..MaxRows}

\* Three raw records, the second of group B.
three_records ==
    DataFrame(PrepDtypes(ComposerCols),
      <<ComposerRow(ComposerCols, 0, "A", Float(30), Float(1), Float(1)),
        ComposerRow(ComposerCols, 1, "B", Float(30), Float(3), Float(2)),
        ComposerRow(ComposerCols, 2, "C", Float(30), Float(4), Float(4))>>)

RawTables ==
    RawTablesOver(ComposerCols) \cup {three_records}
        \cup {drop(three_records, {"float_col"}), drop(three_records, {"sensor_id"})}

\* ------------------------------------------------------------ ModelService
\* No MODEL_URI.
NoUri == "None"

\* No model loaded (self.model is None).
NotLoaded == [kind |-> "None"]

\* The outcome of a ModelService operation: the instance after it, the
\* exception raised, the Series returned, and the operations entered.
ServiceRaise(self, kind, trace) ==
    [self |-> self, raised |-> kind, out |-> None, trace |-> trace]
ServiceReturn(self, out, trace) ==
    [self |-> self, raised |-> NoError, out |-> out, trace |-> trace]

\* ModelService._load_model: mlflow.pyfunc.load_model(self.model_uri) returns
\* the stored model, or raises (load_ok tells which; it is up to the tracking
\* server and the store).
load_model(self, artifact, load_ok) ==
    IF load_ok
    THEN ServiceReturn([self EXCEPT !.model = artifact], None, <<"load_model">>)
    ELSE ServiceRaise(self, "MlflowException", <<"load_model">>)

\* ModelService.__init__: the model is loaded at once when a URI is given.
ModelService_init(model_uri, artifact, load_ok) ==
    LET self == [model_uri |-> model_uri, model |-> NotLoaded]
    IN  IF model_uri # NoUri
        THEN load_model(self, artifact, load_ok)
        ELSE ServiceReturn(self, None, <<>>)

\* Mutant of ModelService.predict: the model is loaded at every call of a
\* service that has a URI.
ModelService_predict_reloading(self, data, artifact, load_ok) ==
    IF self.model = NotLoaded /\ self.model_uri = NoUri
    THEN ServiceRaise(self, "ValueError", <<>>)
    ELSE LET loaded == IF self.model_uri # NoUri
                       THEN load_model(self, artifact, load_ok)
                       ELSE ServiceReturn(self, None, <<>>)
         IN  IF loaded.raised # NoError
             THEN loaded
             ELSE Only({
               IF res.raised # NoError
               THEN ServiceRaise([loaded.self EXCEPT !.model = res.self], res.raised,
                                 Append(loaded.trace, "model.predict"))
               ELSE ServiceReturn([loaded.self EXCEPT !.model = res.self], res.out,
                                  Append(loaded.trace, "model.predict")) :
               res \in {FullPipelinePyFunc_predict(loaded.self.model, data)}})

\* ModelService.predict
ModelService_predict(self, data, artifact, load_ok) ==
    IF self.model = NotLoaded /\ self.model_uri = NoUri
    THEN ServiceRaise(self, "ValueError", <<>>)
    ELSE LET loaded == IF self.model = NotLoaded
                       THEN load_model(self, artifact, load_ok)
                       ELSE ServiceReturn(self, None, <<>>)
         IN  IF loaded.raised # NoError
             THEN loaded
             ELSE Only({
               IF res.raised # NoError
               THEN ServiceRaise([loaded.self EXCEPT !.model = res.self], res.raised,
                                 Append(loaded.trace, "model.predict"))
               ELSE ServiceReturn([loaded.self EXCEPT !.model = res.self], res.out,
                                  Append(loaded.trace, "model.predict")) :
               res \in {FullPipelinePyFunc_predict(loaded.self.model, data)}})

\* ------------------------------------------------------- the /predict API
\* PredictionRequest.to_dataframe: pd.DataFrame(self.instances), one row per
\* record under a RangeIndex, one column per key any record has (a record
\* without the key gets NaN).
to_dataframe(instances) ==
    LET cols == UNION {DOMAIN instances[i] : i \in 1..Len(instances)}
    IN  DataFrame(PrepDtypes(cols),
          [i \in 1..Len(instances) |->
              [id |-> i - 1,
               v |-> [c \in cols |-> IF c \in DOMAIN instances[i]
                                     THEN instances[i][c] ELSE NaN]]])

\* DataFrame.empty: no row or no column.
empty(df) == len(df) = 0 \/ columns(df) = {}

\* The outcome of the endpoint: the service after the request, the HTTP
\* response, and the operations entered.
HTTPResponse(self, status_code, detail, predictions, record_ids, trace) ==
    [self |-> self, status_code |-> status_code, detail |-> detail,
     predictions |-> predictions, record_ids |-> record_ids, trace |-> trace]

\* The try block of the endpoint: the exception raised in it (HTTPException
\* with status 400 for an empty table), or the PredictionResponse.
Body(self, raised, status_code, detail, out, trace) ==
    [self |-> self, raised |-> raised, status_code |-> status_code, detail |-> detail,
     out |-> out, trace |-> trace]

predict_body(self, instances, artifact, load_ok) ==
    Only({
      IF empty(input_df)
      THEN Body(self, "HTTPException", 400, <<"No instances provided">>, None, <<>>)
      ELSE Only({
        IF res.raised # NoError
        THEN Body(res.self, res.raised, 0, <<>>, None,
                  <<"model_service.predict">> \o res.trace)
        ELSE Body(res.self, NoError, 200, <<>>, res.out,
                  <<"model_service.predict">> \o res.trace) :
        res \in {ModelService_predict(self, input_df, artifact, load_ok)}}) :
      input_df \in {to_dataframe(instances)}})

\* Mutant of api_predict: record_ids are the positions in the response.
api_predict_positional_ids(self, instances, artifact, load_ok) ==
    Only({
      IF body.raised # NoError
      THEN HTTPResponse(body.self, 500, <<"Prediction failed", body.raised>>,
                        <<>>, <<>>, body.trace)
      ELSE HTTPResponse(body.self, 200, <<>>,
                        [i \in 1..Len(body.out.rows) |-> body.out.rows[i].val],
                        [i \in 1..Len(body.out.rows) |-> i - 1],
                        body.trace) :
      body \in {predict_body(self, instances, artifact, load_ok)}})

\* Mutant of api_predict: an exception raised in the try block is answered with
\* an empty successful response.
api_predict_swallowing(self, instances, artifact, load_ok) ==
    Only({
      HTTPResponse(body.self, 200, <<>>,
                   IF body.raised # NoError THEN <<>>
                   ELSE [i \in 1..Len(body.out.rows) |-> body.out.rows[i].val],
                   IF body.raised # NoError THEN <<>>
                   ELSE [i \in 1..Len(body.out.rows) |-> body.out.rows[i].id],
                   body.trace) :
      body \in {predict_body(self, instances, artifact, load_ok)}})

\* POST /predict: the try block, and the except clause, which catches every
\* Exception raised in it (HTTPException is one) and raises
\* HTTPException(500, "Prediction failed: ...").
api_predict(self, instances, artifact, load_ok) ==
    Only({
      IF body.raised # NoError
      THEN HTTPResponse(body.self, 500, <<"Prediction failed", body.raised>>,
                        <<>>, <<>>, body.trace)
      ELSE HTTPResponse(body.self, 200, <<>>,
                        [i \in 1..Len(body.out.rows) |-> body.out.rows[i].val],
                        [i \in 1..Len(body.out.rows) |-> body.out.rows[i].id],
                        body.trace) :
      body \in {predict_body(self, instances, artifact, load_ok)}})

\* The records of a request: full records, and records without float_col.
Instances ==
    RawValues(ComposerCols) \cup RawValues(ComposerCols \ {"float_col"})

\* The requests: up to MaxRows records, one record without any key, and the
\* three records of three_records.
Requests ==
    UNION {[1..n -> Instances] : n \in 0..MaxRows}
        \cup {<<[c \in {} |-> NaN]>>}
        \cup {[i \in 1..3 |-> three_records.rows[i].v]}

ModelUris == {NoUri, "models:/colony/1"}

\* ---------------------------------------------------------------- history
\* What a table holds for one group key: <<sum, count>> of the present cells of
\* column col over the rows whose key is k.
RECURSIVE GroupTotal(_, _, _, _)
GroupTotal(rows, by, col, k) ==
    IF rows = <<>> THEN <<0, 0>>
    ELSE LET r == Head(rows)
             t == GroupTotal(Tail(rows), by, col, k)
         IN  IF r.v[by] = k /\ r.v[col] # NaN
             THEN <<t[1] + r.v[col][1], t[2] + 1>>
             ELSE t

\* The group keys a table holds (a missing key forms no group).
GroupKeysOf(X, by) == {X.rows[i].v[by] : i \in 1..Len(X.rows)} \ {NaNKey}

\* The data of a fit, per group key.
FitData(X, by, col) == [k \in GroupKeysOf(X, by) |-> GroupTotal(X.rows, by, col, k)]

NoFitData == [k \in {} |-> <<0, 0>>]

\* ------------------------------------------------------------- the machine
\* The record of a call: its operation, arguments, the instance at entry, and
\* the outcome.
Called(op, before, X, y, res, X_after) ==
    [op |-> op, before |-> before, X |-> X, y |-> y, raised |-> res.raised,
     detail |-> res.detail, outX |-> res.X, outY |-> res.y, removed |-> res.removed,
     X_after |-> X_after]

\* The record of a FeaturesPreprocessor call.
PCalled(op, before, X, res, X_after) ==
    [op |-> op, before |-> before, X |-> X, raised |-> res.raised, detail |-> res.detail,
     outX |-> res.X, metadata |-> res.metadata, trace |-> res.trace, X_after |-> X_after]

\* The instance a specification does not exercise.
NoPreprocessor == FeaturesPreprocessor_init(<<>>)
NoRemover == OutlierRemover_init(OutlierRemoverConfig(10, 50))
NoPipeline == [kind |-> "None"]
NoService == [kind |-> "None"]
NoModel == [kind |-> "None"]
NoTransformer == [cls |-> "None"]
NoThreads == <<>>

\* The record of a FullPipelinePyFunc.predict call.
PredictCalled(op, before, X, res, X_after) ==
    [op |-> op, before |-> before, X |-> X, raised |-> res.raised, out |-> res.out,
     cleaned_x |-> res.cleaned_x, trace |-> res.trace, X_after |-> X_after]

NoHistory ==
    [fit_completed |-> FALSE, fit_data |-> NoFitData, group_stats |-> NoGroupMeans,
     pp_fit_entered |-> FALSE, pp_fit_returned |-> FALSE, pp_fit_X |-> None,
     pp_fit_df |-> None, built |-> NoModel, load_succeeded |-> FALSE,
     load_failed |-> FALSE]

InitFilter ==
    /\ remover \in {OutlierRemover_init(c) : c \in Configs}
    /\ preprocessor = NoPreprocessor
    /\ sklearn_pipeline = NoPipeline
    /\ service = NoService
    /\ transformer = NoTransformer
    /\ threads = NoThreads
    /\ call = NoCall
    /\ hist = NoHistory

\* What a completed fit of table X adds to the history.
FitCompleted(h, self, X) ==
    [h EXCEPT !.fit_completed = TRUE,
              !.fit_data = FitData(X, "sensor_id", "temperature_sensor"),
              !.group_stats = self.group_means]

Fit ==
    /\ call = NoCall
    /\ \E X \in FilterTables :
          LET res == OutlierRemover_fit(remover, X)
          IN  /\ remover' = res.self
              /\ call' = Called("fit", remover, X, None, res, X)
              /\ hist' = IF res.raised = NoError
                         THEN FitCompleted(hist, res.self, X)
                         ELSE hist
    /\ UNCHANGED <<preprocessor, sklearn_pipeline, service, transformer, threads>>

Transform ==
    /\ call = NoCall
    /\ \E X \in FilterTables : \E y \in {None, LabelsFor(X)} :
          LET res == OutlierRemover_transform(remover, X, y)
          IN  /\ remover' = res.self
              /\ call' = Called("transform", remover, X, y, res,
                                table_after_transform(remover, X))
    /\ UNCHANGED <<preprocessor, sklearn_pipeline, service, transformer, hist, threads>>

\* fit_transform completes a fit as soon as its fit part returns, whatever its
\* transform part does then.
FitTransform ==
    /\ call = NoCall
    /\ \E X \in FilterTables : \E y \in {None, LabelsFor(X)} :
          LET res == OutlierRemover_fit_transform(remover, X, y)
          IN  /\ remover' = res.self
              /\ call' = Called("fit_transform", remover, X, y, res,
                                table_after_transform(remover, X))
              /\ hist' = IF OutlierRemover_fit(remover, X).raised = NoError
                         THEN FitCompleted(hist, res.self, X)
                         ELSE hist
    /\ UNCHANGED <<preprocessor, sklearn_pipeline, service, transformer, threads>>

\* The caller takes the outcome of the call; the instance is ready for the next one.
Done ==
    /\ call # NoCall
    /\ call' = NoCall
    /\ UNCHANGED <<remover, preprocessor, sklearn_pipeline, service, transformer, hist, threads>>

NextFilter == Fit \/ Transform \/ FitTransform \/ Done

SpecFilter == InitFilter /\ [][NextFilter]_vars

InitOrchestrator ==
    /\ preprocessor \in {FeaturesPreprocessor_init(steps) : steps \in StepLists}
    /\ remover = NoRemover
    /\ sklearn_pipeline = NoPipeline
    /\ service = NoService
    /\ transformer = NoTransformer
    /\ threads = NoThreads
    /\ call = NoCall
    /\ hist = NoHistory

\* The history after a fit: whether it returned and, if it did, the table it
\* was given and the table df_temp its loop ended with.
PFitRecorded(h, self, X, res) ==
    IF res.raised # NoError
    THEN [h EXCEPT !.pp_fit_entered = TRUE, !.pp_fit_returned = FALSE,
                   !.pp_fit_X = None, !.pp_fit_df = None]
    ELSE [h EXCEPT !.pp_fit_entered = TRUE, !.pp_fit_returned = TRUE,
                   !.pp_fit_X = X,
                   !.pp_fit_df = fit_loop(self.steps, 1, <<>>, X, <<>>).df]

PFit ==
    /\ call = NoCall
    /\ \E X \in PrepTables :
          LET res == FeaturesPreprocessor_fit(preprocessor, X)
          IN  /\ preprocessor' = res.self
              /\ call' = PCalled("pp_fit", preprocessor, X, res,
                                table_after_preprocessor_call(X))
              /\ hist' = PFitRecorded(hist, preprocessor, X, res)
    /\ UNCHANGED <<remover, sklearn_pipeline, service, transformer, threads>>

PTransform ==
    /\ call = NoCall
    /\ \E X \in PrepTables :
          LET res == FeaturesPreprocessor_transform(preprocessor, X)
          IN  /\ preprocessor' = res.self
              /\ call' = PCalled("pp_transform", preprocessor, X, res,
                                table_after_preprocessor_call(X))
    /\ UNCHANGED <<remover, sklearn_pipeline, service, transformer, hist, threads>>

PGetMetadata ==
    /\ call = NoCall
    /\ LET res == FeaturesPreprocessor_get_metadata(preprocessor)
       IN  /\ preprocessor' = res.self
           /\ call' = PCalled("pp_get_metadata", preprocessor, None, res, None)
    /\ UNCHANGED <<remover, sklearn_pipeline, service, transformer, hist, threads>>

NextOrchestrator == PFit \/ PTransform \/ PGetMetadata \/ Done

SpecOrchestrator == InitOrchestrator /\ [][NextOrchestrator]_vars

\* The record of a transformer's fit or transform call.
StepCalled(op, before, X, res, X_after) ==
    [op |-> op, before |-> before, X |-> X, raised |-> res.raised, detail |-> res.detail,
     outX |-> res.X, X_after |-> X_after]

\* The declarations of the six step classes.
StepConfigs == {StepCatalogue[i] : i \in 1..6}

\* df with one more float column c.
with_column(df, c) == assign(df, c, "float64", [i \in 1..Len(df.rows) |-> Float(9)])

\* The tables given to a single step: those of the orchestrator, get_df without
\* one of its columns, the table with diff_col without int_col, and get_df
\* with a column named like a step's output.
StepTables ==
    PrepTables \cup {drop(get_df, {c}) : c \in AllPrepCols}
        \cup {drop(df_with_diff_col, {"int_col"})}
        \cup {with_column(get_df, c) : c \in {"bin_col", "abs_col", "float_mean"}}

InitStep ==
    /\ remover = NoRemover
    /\ preprocessor = NoPreprocessor
    /\ sklearn_pipeline = NoPipeline
    /\ service = NoService
    /\ transformer = NoTransformer
    /\ threads = NoThreads
    /\ call = NoCall
    /\ hist = NoHistory

\* A transformer is constructed from its declaration and fitted; the caller
\* keeps it when fit returns.
StepFit ==
    /\ call = NoCall
    /\ \E config \in StepConfigs : \E X \in StepTables :
          LET made == create_transformer_from_config(config).transformer
              res == step_fit(made, X)
          IN  /\ transformer' = IF res.raised = NoError THEN res.step ELSE transformer
              /\ call' = StepCalled("step_fit", made, X, res, X)
    /\ UNCHANGED <<remover, preprocessor, sklearn_pipeline, service, hist, threads>>

StepTransform ==
    /\ call = NoCall
    /\ transformer # NoTransformer
    /\ \E X \in StepTables :
          LET res == step_transform(transformer, X)
          IN  /\ transformer' = res.step
              /\ call' = StepCalled("step_transform", transformer, X, res,
                                    table_after_step_transform(transformer, X))
    /\ UNCHANGED <<remover, preprocessor, sklearn_pipeline, service, hist, threads>>

NextStep == StepFit \/ StepTransform \/ Done

SpecStep == InitStep /\ [][NextStep]_vars

\* The locators given to the resolver: a class name alone, the short form the
\* tests use, longer relative forms, the full path, and full paths of other
\* packages (inside src and outside it).
LocatorModules ==
    {<<>>, <<"feature_store">>, <<"preprocessor", "feature_store">>,
     <<"src", "data", "preprocessor", "feature_store">>,
     <<"src", "data", "loader", "component">>,
     <<"sklearn", "preprocessing">>, <<"sklearn", "feature_store">>}

LocatorClasses == feature_store_classes \cup {"NoSuchStep", "StandardScaler"}

ResolverParams == {NoParams} \cup {StepCatalogue[i].params : i \in DOMAIN StepCatalogue}

ResolverConfigs ==
    {StepConfig("step", m \o <<c>>, params) :
        m \in LocatorModules, c \in LocatorClasses, params \in ResolverParams}

\* The record of a _create_transformer_from_config call: the StepConfig, the
\* class path after expansion, and the outcome.
ResolveCalled(config, res) ==
    [op |-> "resolve", config |-> config, class_path |-> expanded_path(config.class_path),
     raised |-> res.raised, transformer |-> res.transformer]

InitResolver ==
    /\ remover = NoRemover
    /\ preprocessor = NoPreprocessor
    /\ sklearn_pipeline = NoPipeline
    /\ service = NoService
    /\ transformer = NoTransformer
    /\ threads = NoThreads
    /\ call = NoCall
    /\ hist = NoHistory

Resolve ==
    /\ call = NoCall
    /\ \E config \in ResolverConfigs :
          call' = ResolveCalled(config, create_transformer_from_config(config))
    /\ UNCHANGED <<remover, preprocessor, sklearn_pipeline, service, transformer, hist, threads>>

NextResolver == Resolve \/ Done

SpecResolver == InitResolver /\ [][NextResolver]_vars

\* The record of a POST /predict request.
ApiCalled(before, instances, load_ok, res) ==
    [op |-> "post_predict", before |-> before, instances |-> instances,
     load_ok |-> load_ok, status_code |-> res.status_code, detail |-> res.detail,
     predictions |-> res.predictions, record_ids |-> res.record_ids, trace |-> res.trace]

\* The history of a model train_model has returned.
TrainedHistory(m) ==
    [fit_completed |-> TRUE,
     fit_data |-> FitData(X_train, "sensor_id", "temperature_sensor"),
     group_stats |-> m.outlier_remover.group_means,
     pp_fit_entered |-> TRUE, pp_fit_returned |-> TRUE, pp_fit_X |-> None,
     pp_fit_df |-> None, built |-> m, load_succeeded |-> FALSE, load_failed |-> FALSE]

InitComposer ==
    \E m \in TrainedModels :
        /\ remover = m.outlier_remover
        /\ preprocessor = m.preprocessor
        /\ sklearn_pipeline = m.sklearn_pipeline
        /\ service = NoService
        /\ transformer = NoTransformer
        /\ threads = NoThreads
        /\ call = NoCall
        /\ hist = TrainedHistory(m)

Predict ==
    /\ call = NoCall
    /\ \E model_input \in RawTables :
          LET self == FullPipelinePyFunc_init(remover, preprocessor, sklearn_pipeline)
              res == FullPipelinePyFunc_predict(self, model_input)
          IN  /\ remover' = res.self.outlier_remover
              /\ preprocessor' = res.self.preprocessor
              /\ sklearn_pipeline' = res.self.sklearn_pipeline
              /\ call' = PredictCalled("predict", self, model_input, res,
                                       table_after_predict(self, model_input))
    /\ UNCHANGED <<service, transformer, hist, threads>>

NextComposer == Predict \/ Done

SpecComposer == InitComposer /\ [][NextComposer]_vars

\* ------------------------------------------------- OutlierRemover: claims
TransformReturned == call.op = "transform" /\ call.raised = NoError

\* The position of index label i in a table.
PositionOf(df, i) == CHOOSE p \in 1..Len(df.rows) : df.rows[p].id = i

\* C4 (subset law): the index of transform's output table is a subsequence of
\* the input's index: every output label is a label of the input, no label
\* occurs twice, the surviving rows keep their relative order, and each is the
\* input's row of that label.
C4_SubsetLaw ==
    TransformReturned =>
        LET out == call.outX
            n == Len(out.rows)
        IN  /\ \A i \in 1..n : \E j \in 1..Len(call.X.rows) : call.X.rows[j] = out.rows[i]
            /\ \A i, k \in 1..n : out.rows[i].id = out.rows[k].id => i = k
            /\ \A i, k \in 1..n :
                  i < k => PositionOf(call.X, out.rows[i].id) < PositionOf(call.X, out.rows[k].id)

\* A transform of a table indexed in descending order that drops a row and keeps one.
C4_Witness ==
    /\ TransformReturned
    /\ Len(call.X.rows) >= 2
    /\ call.X.rows[1].id > call.X.rows[2].id
    /\ Len(call.outX.rows) >= 1
    /\ call.removed >= 1

\* C5 (label alignment law): when transform is given labels y indexed like X,
\* the returned labels carry exactly the returned table's index, in its order,
\* and each returned label is the one y held under that index label.
C5_LabelAlignment ==
    (TransformReturned /\ call.y # None) =>
        /\ call.outY # None
        /\ index(call.outY) = index(call.outX)
        /\ \A i \in 1..Len(call.outY.rows) :
              \E j \in 1..Len(call.y.rows) : call.y.rows[j] = call.outY.rows[i]

\* A transform with labels whose first row is dropped and a later row kept.
C5_Witness ==
    /\ TransformReturned
    /\ call.y # None
    /\ Len(call.outY.rows) >= 1
    /\ call.outY.rows[1].id # call.y.rows[1].id

\* The rows of the last call's table whose group key the last fit's data lacked.
UnseenRows ==
    {i \in 1..Len(call.X.rows) : call.X.rows[i].v["sensor_id"] \notin DOMAIN hist.fit_data}

FitMeanInRange(k) ==
    /\ k \in DOMAIN hist.fit_data
    /\ hist.fit_data[k][2] > 0
    /\ remover.config.min_temp_threshold * hist.fit_data[k][2] <= hist.fit_data[k][1]
    /\ hist.fit_data[k][1] <= remover.config.max_temp_threshold * hist.fit_data[k][2]

\* C7: transform keeps a row if and only if the data of the last fit gives the
\* row's group a mean m of the temperature column with min <= m <= max, both
\* bounds included; the row's own value plays no part.
C7_RetainIffGroupMeanInRange ==
    TransformReturned =>
        \A i \in 1..Len(call.X.rows) :
            (\E j \in 1..Len(call.outX.rows) : call.outX.rows[j].id = call.X.rows[i].id)
                <=> FitMeanInRange(call.X.rows[i].v["sensor_id"])

\* The test scenario: fit and transform on sample_data with thresholds [10, 50]
\* keep the 7 rows of A and C.
C7_Witness ==
    /\ TransformReturned
    /\ call.X = sample_data
    /\ remover.config.min_temp_threshold = 10
    /\ remover.config.max_temp_threshold = 50
    /\ DOMAIN hist.fit_data = {"A", "B", "C"}
    /\ hist.fit_data["A"] = <<63, 3>>
    /\ hist.fit_data["B"] = <<109, 2>>
    /\ hist.fit_data["C"] = <<48, 4>>
    /\ index(call.outX) = <<0, 1, 2, 5, 6, 7, 8>>

\* C8: _group_means is absent exactly as long as no fit has completed, and a
\* transform on such an instance raises NotFittedError and returns nothing.
C8_TransformNotFitted ==
    /\ remover.has_group_means = hist.fit_completed
    /\ (call.op = "transform" /\ ~hist.fit_completed) =>
          /\ call.raised = "NotFittedError"
          /\ call.outX = None
          /\ call.outY = None

\* A transform of a well-formed, non-empty table before any fit.
C8_Witness ==
    /\ call.op = "transform"
    /\ ~hist.fit_completed
    /\ call.raised = "NotFittedError"
    /\ columns(call.X) = FilterCols
    /\ Len(call.X.rows) > 0

RequiredCols == {remover.config.group_by_column, remover.config.temperature_column}

\* C9: a fit on a table lacking the group-key or the temperature column raises
\* ValueError naming the required columns and leaves the instance as it was at
\* entry (no group means are computed).
C9_FitMissingColumns ==
    (call.op = "fit" /\ ~(RequiredCols \subseteq columns(call.X))) =>
        /\ call.raised = "ValueError"
        /\ call.detail = RequiredCols
        /\ remover = call.before

\* A fit on a table without the temperature column, on a fitted instance.
C9_Witness ==
    /\ call.op = "fit"
    /\ columns(call.X) = {"sensor_id"}
    /\ Len(call.X.rows) > 0
    /\ call.raised = "ValueError"
    /\ call.before.has_group_means

\* C10: after a successful fit the stored group means are those of that call's
\* table alone: one entry per group key of the table, each the reduced mean of
\* the group's present cells (NaN when it has none); nothing of an earlier fit
\* remains.
C10_GroupStatsOfLastFit ==
    (call.op = "fit" /\ call.raised = NoError) =>
        LET gm == remover.group_means
            by == remover.config.group_by_column
            col == remover.config.temperature_column
        IN  /\ remover.has_group_means
            /\ DOMAIN gm = GroupKeysOf(call.X, by)
            /\ \A k \in DOMAIN gm :
                  LET t == GroupTotal(call.X.rows, by, col, k)
                  IN  IF t[2] = 0 THEN gm[k] = NaN
                      ELSE /\ gm[k][2] > 0
                           /\ gm[k][1] * t[2] = t[1] * gm[k][2]
                           /\ GCD(gm[k][1], gm[k][2]) = 1

\* A second fit whose table lacks a group the earlier fit had learned.
C10_Witness ==
    /\ call.op = "fit"
    /\ call.raised = NoError
    /\ call.before.has_group_means
    /\ \E k \in DOMAIN call.before.group_means : k \notin DOMAIN remover.group_means
    /\ \E k \in DOMAIN remover.group_means :
          k \in DOMAIN call.before.group_means /\ call.before.group_means[k] # remover.group_means[k]

\* C11: transform never relearns or modifies the group means.  In every state
\* reached after a completed fit, whatever transform calls followed it, the
\* stored group means are the value that fit produced; a transform call (with
\* or without labels, unseen groups included) leaves the instance as it was at
\* entry and the caller's table as it was passed, and the temporary statistic
\* column is neither in the caller's table nor in the returned one.
C11_TransformKeepsGroupStats ==
    /\ hist.fit_completed => remover.group_means = hist.group_stats
    /\ call.op = "transform" =>
          /\ remover = call.before
          /\ call.X_after = call.X
          /\ mean_col_name(remover) \notin columns(call.X_after)
          /\ call.raised = NoError =>
                /\ mean_col_name(remover) \notin columns(call.outX)
                /\ call.outX.dtypes = call.X.dtypes

\* A transform with labels on a fitted instance whose table holds a group the
\* fit had not seen and a different mean for a group it had seen.
C11_Witness ==
    /\ call.op = "transform"
    /\ call.raised = NoError
    /\ call.y # None
    /\ hist.fit_completed
    /\ "temperature_sensor" \in columns(call.X)
    /\ \E i \in 1..Len(call.X.rows) :
          call.X.rows[i].v["sensor_id"] \notin DOMAIN hist.group_stats \cup {NaNKey}
    /\ DOMAIN hist.group_stats \cap
           DOMAIN groupby_mean(call.X, "sensor_id", "temperature_sensor") # {}
    /\ groupby_mean(call.X, "sensor_id", "temperature_sensor") # hist.group_stats

\* C12: fit_transform(X, y) gives what fit(X) followed by transform(X, y) gives
\* on a fresh instance of the same configuration: the same exception if one is
\* raised, else the same table and labels, and when the fit part succeeds the
\* instance is left as the fresh one is (the same group means).
C12_FitTransformEquivalence ==
    call.op = "fit_transform" =>
        LET fresh == OutlierRemover_init(call.before.config)
            fitted == OutlierRemover_fit(fresh, call.X)
            out == OutlierRemover_transform(fitted.self, call.X, call.y)
        IN  IF fitted.raised # NoError
            THEN call.raised = fitted.raised /\ call.outX = None /\ call.outY = None
            ELSE /\ call.raised = out.raised
                 /\ call.outX = out.X
                 /\ call.outY = out.y
                 /\ call.removed = out.removed
                 /\ remover = out.self

\* A fit_transform with labels on an instance already fitted on other data,
\* which drops a row and keeps one.
C12_Witness ==
    /\ call.op = "fit_transform"
    /\ call.raised = NoError
    /\ call.y # None
    /\ call.before.has_group_means
    /\ call.before.group_means # remover.group_means
    /\ call.removed >= 1
    /\ Len(call.outX.rows) >= 1

\* ------------------------------------------- FeaturesPreprocessor: claims
\* C1: fit is all-or-nothing.  After a fit that raised, the instance holds no
\* fitted step, and transform (on any table) and get_metadata raise the
\* not-fitted RuntimeError, as on an instance never fitted.
C1_FailedFitLeavesUnfitted ==
    (call.op = "pp_fit" /\ call.raised # NoError) =>
        /\ preprocessor.fitted_steps = <<>>
        /\ \A X \in PrepTables :
              FeaturesPreprocessor_transform(preprocessor, X).raised = "RuntimeError"
        /\ FeaturesPreprocessor_get_metadata(preprocessor).raised = "RuntimeError"

\* C2: transform on an instance whose fit was never called raises the
\* not-fitted RuntimeError, whatever the step list and the table, returns no
\* table, enters no step and leaves the instance as it was.
C2_TransformBeforeFitRaises ==
    (call.op = "pp_transform" /\ ~hist.pp_fit_entered) =>
        /\ call.raised = "RuntimeError"
        /\ call.outX = None
        /\ call.trace = <<>>
        /\ preprocessor = call.before

\* The test's case: transform of get_df before any fit, with steps declared.
C2_Witness ==
    /\ call.op = "pp_transform"
    /\ ~hist.pp_fit_entered
    /\ call.raised = "RuntimeError"
    /\ Len(preprocessor.steps) >= 1
    /\ call.X = get_df

\* C3: when the last fit returned normally, get_metadata returns one entry per
\* StepConfig, for a list of any length n >= 0, the i-th entry carrying the
\* name, class path and params of the i-th StepConfig.
C3_MetadataMirrorsSteps ==
    (call.op = "pp_get_metadata" /\ hist.pp_fit_returned) =>
        /\ call.raised = NoError
        /\ Len(call.metadata) = Len(preprocessor.steps)
        /\ \A i \in 1..Len(call.metadata) :
              /\ call.metadata[i].name = preprocessor.steps[i].name
              /\ call.metadata[i].class_path = preprocessor.steps[i].class_path
              /\ call.metadata[i].params = preprocessor.steps[i].params

\* The stored model is one train_model returned; the service is constructed
\* with or without a model URI (with one, its load has succeeded: a failed load
\* raises out of the constructor and no service exists).
InitServing ==
    \E m \in TrainedModels : \E uri \in ModelUris :
        /\ remover = m.outlier_remover
        /\ preprocessor = m.preprocessor
        /\ sklearn_pipeline = m.sklearn_pipeline
        /\ service = ModelService_init(uri, m, TRUE).self
        /\ transformer = NoTransformer
        /\ threads = NoThreads
        /\ call = NoCall
        /\ hist = TrainedHistory(m)

PostPredict ==
    /\ call = NoCall
    /\ \E instances \in Requests : \E load_ok \in BOOLEAN :
          LET res == api_predict(service, instances, hist.built, load_ok)
          IN  /\ service' = res.self
              /\ call' = ApiCalled(service, instances, load_ok, res)
    /\ UNCHANGED <<remover, preprocessor, sklearn_pipeline, transformer, hist, threads>>

NextServing == PostPredict \/ Done

SpecServing == InitServing /\ [][NextServing]_vars

\* ------------------------------------------------------ resolver: claims
\* The top-level packages of the locators; a locator that starts with one is
\* fully qualified, any other is bare.
TopLevelPackages == {"src", "sklearn"}

FullyQualified(locator) == Len(locator) >= 2 /\ locator[1] \in TopLevelPackages

\* C16 (locator expansion): the resolver looks a bare locator up inside the
\* default namespace src.data.preprocessor, and imports a fully qualified
\* locator exactly as written, whatever its top-level package.
C16_LocatorExpansion ==
    call.op = "resolve" =>
        IF FullyQualified(call.config.class_path)
        THEN call.class_path = call.config.class_path
        ELSE call.class_path = DEFAULT_MODULE_PREFIX \o call.config.class_path

\* C17 (failure kind): a resolution fails with ImportError and with no other
\* kind, both when the module or class is not found and when the class found
\* rejects the params.
C17_ResolutionErrorKind ==
    call.op = "resolve" => call.raised \in {NoError, "ImportError"}

\* ---------------------------------------------------------- steps: claims
\* The columns a step requires of the table given to fit or to transform: the
\* columns to cast, to fill, to subtract, to compare; for the aggregator the
\* aggregated columns and the group key at fit, the group key at transform.
RequiredByStep(step, op) ==
    CASE step.cls = "IntToFloatConverter" -> Range(Param(step.params, "columns", <<>>))
      [] step.cls = "MeanImputer" -> Range(step.params["input_cols"])
      [] step.cls = "GroupedAggregator" ->
            IF op = "step_fit"
            THEN Range(step.params["input_cols"]) \cup {step.params["groupby_col"]}
            ELSE {step.params["groupby_col"]}
      [] step.cls = "ThresholdBinarizer" -> {step.params["input_col"]}
      [] OTHER -> Range(step.params["input_cols"])

\* The columns a step's transform adds.
OutputColumns(step) ==
    CASE step.cls = "GroupedAggregator" -> Range(step.params["output_cols"])
      [] step.cls \in {"ColumnSubtractor", "AbsoluteDifference", "ThresholdBinarizer"} ->
            {step.params["output_col"]}
      [] OTHER -> {}

StepCall == call.op \in {"step_fit", "step_transform"}

\* C18 (step schema contract): for each of the six step classes, fit and
\* transform raise ValueError naming the missing columns, and return nothing,
\* whenever the table lacks a column the step requires.
C18_StepSchemaContract ==
    (StepCall /\ RequiredByStep(call.before, call.op) \ columns(call.X) # {}) =>
        /\ call.raised = "ValueError"
        /\ call.detail = RequiredByStep(call.before, call.op) \ columns(call.X)
        /\ call.outX = None

\* C19 (collision guard): the transform of a step that adds columns (grouped
\* aggregate, difference, absolute difference, threshold binarizer) raises
\* ValueError whenever the table already holds one of its output columns - the
\* collision error naming the output columns when the required columns are
\* there - returns no table and leaves the caller's table as it was passed.
C19_CollisionGuard ==
    (call.op = "step_transform" /\ OutputColumns(call.before) \cap columns(call.X) # {}) =>
        /\ call.raised = "ValueError"
        /\ call.outX = None
        /\ call.X_after = call.X
        /\ transformer = call.before
        /\ RequiredByStep(call.before, call.op) \subseteq columns(call.X) =>
              call.detail = OutputColumns(call.before)

\* A fitted ColumnSubtractor is given a table that already holds diff_col.
C19_Witness ==
    /\ call.op = "step_transform"
    /\ call.before.cls = "ColumnSubtractor"
    /\ call.X = df_with_diff_col
    /\ call.raised = "ValueError"
    /\ call.detail = {"diff_col"}

\* ------------------------------------------------ FullPipelinePyFunc: claims
\* The rows of the last call's table whose group the training data gives a
\* mean within the thresholds, in the table's order.
Survivors == SelectSeq(call.X.rows, LAMBDA r : FitMeanInRange(r.v["sensor_id"]))

\* C13 (identity guarantee): the Series predict returns carries exactly the
\* index labels of the rows of the raw table that survive the fitted filter, in
\* the table's order, one prediction per surviving row, each a learned class;
\* a removed row has no entry.
C13_PredictIdentity ==
    (call.op = "predict" /\ call.raised = NoError) =>
        /\ index(call.out) = [i \in 1..Len(Survivors) |-> Survivors[i].id]
        /\ \A i \in 1..Len(call.out.rows) :
              call.out.rows[i].val \in sklearn_pipeline.classifier.classes

\* Scenario 3: of three raw records the filter removes the second; two
\* predictions come back, under the index labels 0 and 2.
C13_Witness ==
    /\ call.op = "predict"
    /\ call.raised = NoError
    /\ call.X = three_records
    /\ index(call.out) = <<0, 2>>

\* C14 (empty survivors): when the filter returns a table without rows, predict
\* returns the empty Series of the dtype of the classifier's classes_, raises
\* nothing, and enters neither the pipeline's transforms nor the classifier.
C14_EmptySurvivors ==
    (call.op = "predict" /\ call.cleaned_x # None /\ Len(call.cleaned_x.rows) = 0) =>
        /\ call.raised = NoError
        /\ call.out.rows = <<>>
        /\ call.out.dtype = sklearn_pipeline.classifier.classes_dtype
        /\ call.out.dtype = LabelDtype
        /\ call.trace = <<"outlier_remover.transform">>

\* A raw table of two rows, one of a group the filter learned as an outlier and
\* one of a group it never saw: both are removed.
C14_Witness ==
    /\ call.op = "predict"
    /\ call.raised = NoError
    /\ Len(call.X.rows) = 2
    /\ call.out.rows = <<>>
    /\ \E i \in 1..2 : call.X.rows[i].v["sensor_id"] \in DOMAIN hist.fit_data
    /\ \E i \in 1..2 : call.X.rows[i].v["sensor_id"] \notin DOMAIN hist.fit_data

\* C15 (the composer never fits): in every state, whatever predict calls were
\* made, the filter (its group means), the orchestrator (its fitted steps with
\* what each learned) and the classifier are those the model was constructed
\* from, and a predict call leaves the caller's raw table as it was passed.
C15_PredictNeverFits ==
    /\ FullPipelinePyFunc_init(remover, preprocessor, sklearn_pipeline) = hist.built
    /\ call.op = "predict" =>
          /\ call.before = hist.built
          /\ call.X_after = call.X

\* A predict that returns predictions through a step with learned state
\* (MeanImputer), on a table with a group unseen at training and a missing cell.
C15_Witness ==
    /\ call.op = "predict"
    /\ call.raised = NoError
    /\ Len(call.out.rows) >= 1
    /\ \E i \in 1..Len(preprocessor.fitted_steps) :
          preprocessor.fitted_steps[i].cls = "MeanImputer"
    /\ \E i \in 1..Len(call.X.rows) :
          call.X.rows[i].v["sensor_id"] \notin DOMAIN hist.fit_data
    /\ \E i \in 1..Len(call.X.rows) : call.X.rows[i].v["float_col"] = NaN

\* ------------------------------------------------------------ API: claims
\* C20 (empty batch): a POST /predict with no instance is answered with status
\* 400 and the detail 'No instances provided', and model_service.predict is
\* not called.
C20_EmptyBatchIsClientError ==
    (call.op = "post_predict" /\ Len(call.instances) = 0) =>
        /\ call.status_code = 400
        /\ call.detail = <<"No instances provided">>
        /\ call.trace = <<>>

\* The request positions (from 0) of the records whose group the training data
\* gives a mean within the thresholds, in request order.
SurvivingPositions ==
    LET kept == SelectSeq([i \in 1..Len(call.instances) |-> i],
                          LAMBDA i : FitMeanInRange(call.instances[i]["sensor_id"]))
    IN  [j \in 1..Len(kept) |-> kept[j] - 1]

\* The label the stored pipeline predicts for the record at request position p
\* taken alone (as a row of the request's table).
LabelOfRecord(p) ==
    LET input_df == to_dataframe(call.instances)
        alone == DataFrame(input_df.dtypes, <<input_df.rows[p + 1]>>)
    IN  Pipeline_predict(hist.built.preprocessor, hist.built.sklearn_pipeline,
                         alone).array[1]

\* C21 (response shape): in a successful response predictions and record_ids
\* have the same length, at most the request's; record_ids are the request
\* positions of the surviving records in request order, a removed record has no
\* entry, and predictions[i] is the label predicted from record record_ids[i].
C21_ResponseShape ==
    (call.op = "post_predict" /\ call.status_code = 200) =>
        /\ Len(call.predictions) = Len(call.record_ids)
        /\ Len(call.predictions) <= Len(call.instances)
        /\ call.record_ids = SurvivingPositions
        /\ \A i \in 1..Len(call.predictions) :
              call.predictions[i] = LabelOfRecord(call.record_ids[i])

\* Of three records the second is removed: two predictions, for records 0 and 2.
C21_Witness ==
    /\ call.op = "post_predict"
    /\ call.status_code = 200
    /\ Len(call.instances) = 3
    /\ call.record_ids = <<0, 2>>
    /\ Len(call.predictions) = 2

\* What model_service.predict does on the last request's table, called on the
\* service as it was when the request came in.
ServiceOutcome ==
    ModelService_predict(call.before, to_dataframe(call.instances), hist.built,
                         call.load_ok)

\* C22 (failure translation): when model_service.predict is called and raises,
\* whatever the error, the response has status 500, a detail that begins with
\* 'Prediction failed', and neither predictions nor record ids.
C22_FailureTranslation ==
    (/\ call.op = "post_predict"
     /\ ~empty(to_dataframe(call.instances))
     /\ ServiceOutcome.raised # NoError) =>
        /\ call.status_code = 500
        /\ Len(call.detail) >= 1
        /\ call.detail[1] = "Prediction failed"
        /\ call.predictions = <<>>
        /\ call.record_ids = <<>>

\* The loaded model raises on a request of which the filter keeps a record: the
\* stored pipeline does not accept the request's table.
C22_Witness ==
    /\ call.op = "post_predict"
    /\ call.before.model # NotLoaded
    /\ call.trace = <<"model_service.predict", "model.predict">>
    /\ ServiceOutcome.raised # NoError
    /\ call.status_code = 500
    /\ \E i \in 1..Len(call.instances) : FitMeanInRange(call.instances[i]["sensor_id"])

\* ------------------------------- FeaturesPreprocessor: the order of steps
\* The table after the fitted steps 1..i have been applied in turn to X.
RECURSIVE CumulativeOutput(_, _, _)
CumulativeOutput(fitted_steps, X, i) ==
    IF i = 0 THEN X
    ELSE step_transform(fitted_steps[i], CumulativeOutput(fitted_steps, X, i - 1)).X

\* The step operations of a fit of n steps that runs to its end: step 1 is
\* created, fitted and applied, then step 2, and so on.
FitOrder(n) ==
    [k \in 1..(3 * n) |->
        <<IF k % 3 = 1 THEN "create" ELSE IF k % 3 = 2 THEN "fit" ELSE "transform",
          (k + 2) \div 3>>]

IsPrefix(s, t) == Len(s) <= Len(t) /\ \A k \in 1..Len(s) : s[k] = t[k]

\* C23 (fit order): fit creates, fits and applies the steps in declared order,
\* step i only after step i-1 has been fitted and applied; each step it fitted
\* holds what fitting on the cumulative output of the steps before it gives (on
\* the table itself for the first step); the caller's table is as it was.
C23_FitOnCumulativeOutput ==
    call.op = "pp_fit" =>
        /\ IsPrefix(call.trace, FitOrder(Len(preprocessor.steps)))
        /\ call.raised = NoError => call.trace = FitOrder(Len(preprocessor.steps))
        /\ \A i \in 1..Len(preprocessor.fitted_steps) :
              LET made == create_transformer_from_config(preprocessor.steps[i])
                  fed == CumulativeOutput(preprocessor.fitted_steps, call.X, i - 1)
              IN  /\ made.raised = NoError
                  /\ step_fit(made.transformer, fed).raised = NoError
                  /\ preprocessor.fitted_steps[i] = step_fit(made.transformer, fed).step
        /\ call.X_after = call.X

\* A fit that returns, whose second step learns from a column the first step
\* made: fitting it on the table fit was given would raise.
C23_Witness ==
    /\ call.op = "pp_fit"
    /\ call.raised = NoError
    /\ Len(preprocessor.steps) = 2
    /\ step_fit(create_transformer_from_config(preprocessor.steps[2]).transformer,
                call.X).raised # NoError
    /\ "diff_col" \in DOMAIN preprocessor.fitted_steps[2].learned

\* The step operations of a transform over n fitted steps that runs to its end.
TransformOrder(n) == [k \in 1..n |-> <<"transform", k>>]

\* C24 (replay of the frozen steps): on an instance whose last fit returned,
\* transform applies the fitted steps in declared order, each on the output of
\* the one before, and leaves the fitted sequence and what each step learned as
\* they were; a second transform of the same table returns the same table; and
\* transform of the table the fit was given returns the table the fit's loop
\* ended with.
C24_TransformReplaysFittedSteps ==
    (call.op = "pp_transform" /\ hist.pp_fit_returned) =>
        /\ preprocessor = call.before
        /\ IsPrefix(call.trace, TransformOrder(Len(preprocessor.fitted_steps)))
        /\ call.raised = NoError =>
              /\ call.trace = TransformOrder(Len(preprocessor.fitted_steps))
              /\ call.outX = CumulativeOutput(preprocessor.fitted_steps, call.X,
                                              Len(preprocessor.fitted_steps))
        /\ FeaturesPreprocessor_transform(preprocessor, call.X).raised = call.raised
        /\ FeaturesPreprocessor_transform(preprocessor, call.X).X = call.outX
        /\ call.X = hist.pp_fit_X =>
              /\ call.raised = NoError
              /\ call.outX = hist.pp_fit_df

\* transform of the table the fit was given, through two fitted steps of which
\* one learned a mean, returning another table than it was given.
C24_Witness ==
    /\ call.op = "pp_transform"
    /\ hist.pp_fit_returned
    /\ call.raised = NoError
    /\ call.X = hist.pp_fit_X
    /\ Len(preprocessor.fitted_steps) = 2
    /\ \E i \in 1..2 : preprocessor.fitted_steps[i].cls = "MeanImputer"
    /\ call.outX # call.X

\* Whether the n-th step operation a call entered raised, and what: step k's
\* construction, its fit or its transform, recomputed on the cumulative output
\* of the steps before it.
OperationRaised(n) ==
    LET k == call.trace[n][2]
        fed == CumulativeOutput(preprocessor.fitted_steps, call.X, k - 1)
        made == create_transformer_from_config(call.before.steps[k])
    IN  IF call.trace[n][1] = "create" THEN made.raised
        ELSE IF call.trace[n][1] = "fit" THEN step_fit(made.transformer, fed).raised
        ELSE step_transform(preprocessor.fitted_steps[k], fed).raised

\* C25 (fail-fast): in fit and in transform a step operation that raises is the
\* last operation the call enters: no operation is entered after one that
\* raised, none is entered twice, and the call raises that operation's error
\* and returns no table.
C25_FailFast ==
    call.op \in {"pp_fit", "pp_transform"} =>
        /\ \A n \in 1..(Len(call.trace) - 1) : OperationRaised(n) = NoError
        /\ call.trace # <<>> => OperationRaised(Len(call.trace)) = call.raised
        /\ \A j, k \in 1..Len(call.trace) : call.trace[j] = call.trace[k] => j = k
        /\ call.raised # NoError => call.outX = None

\* transform raises in the first of two fitted steps; the second is not entered.
C25_Witness ==
    /\ call.op = "pp_transform"
    /\ call.raised = "ValueError"
    /\ Len(preprocessor.fitted_steps) = 2
    /\ call.trace = <<<<"transform", 1>>>>
    /\ call.outX = None

Threads == 1..NumThreads

\* A thread that is in no call.
ThreadIdle ==
    [pc |-> "idle", input |-> None, cleaned_x |-> None, df |-> None, i |-> 0,
     raised |-> NoError, out |-> None, overlapped |-> FALSE]

\* The raw tables the threads predict on: the three records; an unseen group
\* and a missing cell under a descending index; a table without float_col.
ConcurrentInputs ==
    {three_records,
     DataFrame(PrepDtypes(ComposerCols),
       <<ComposerRow(ComposerCols, 5, "D", Float(30), Float(1), Float(1)),
         ComposerRow(ComposerCols, 4, "A", Float(30), Float(1), NaN)>>),
     drop(three_records, {"float_col"})}

\* Whether another thread is inside a call.
OtherInCall(t) ==
    \E u \in Threads \ {t} : threads[u].pc \notin {"idle", "returned"}

\* The thread's call has ended: it raised, or it returns out.
ThreadRaised(th, kind, busy) ==
    [th EXCEPT !.pc = "returned", !.raised = kind, !.overlapped = @ \/ busy]
ThreadReturned(th, out, busy) ==
    [th EXCEPT !.pc = "returned", !.out = out, !.overlapped = @ \/ busy]

\* The models the threads share: those whose orchestrator has two fitted steps.
ConcurrentModels == {m \in TrainedModels : Len(m.preprocessor.fitted_steps) = 2}

\* Where a call goes once i - 1 steps of the orchestrator are done: to step i,
\* or past the loop to the classifier.
after_step(self, i) ==
    IF self.has_fitted_steps /\ i > Len(self.fitted_steps)
    THEN "classifier" ELSE "preprocessor"

InitConcurrent ==
    \E m \in ConcurrentModels :
        /\ remover = m.outlier_remover
        /\ preprocessor = m.preprocessor
        /\ sklearn_pipeline = m.sklearn_pipeline
        /\ service = NoService
        /\ transformer = NoTransformer
        /\ call = NoCall
        /\ hist = TrainedHistory(m)
        /\ threads = [t \in Threads |-> ThreadIdle]

\* A thread calls predict(model_input).
TCall(t) ==
    /\ threads[t].pc = "idle"
    /\ \E model_input \in ConcurrentInputs :
          threads' = [threads EXCEPT ![t] = [ThreadIdle EXCEPT !.pc = "filter",
                                                              !.input = model_input]]
    /\ UNCHANGED <<remover, preprocessor, sklearn_pipeline, service, transformer, call, hist>>

\* cleaned_x, _ = self._outlier_remover.transform(model_input), and the return
\* of the empty Series when no row is left.
TFilter(t) ==
    /\ threads[t].pc = "filter"
    /\ \E res \in {OutlierRemover_transform(remover, threads[t].input, None)} :
          /\ remover' = res.self
          /\ threads' = [threads EXCEPT ![t] =
                IF res.raised # NoError
                THEN ThreadRaised(@, res.raised, OtherInCall(t))
                ELSE IF empty(res.X)
                THEN IF ~sklearn_pipeline.classifier.has_model
                     THEN ThreadRaised(@, "AttributeError", OtherInCall(t))
                     ELSE ThreadReturned(@,
                             PredSeries(<<>>, sklearn_pipeline.classifier.classes_dtype,
                                        "None"),
                             OtherInCall(t))
                ELSE [@ EXCEPT !.pc = after_step(preprocessor, 1), !.cleaned_x = res.X,
                               !.df = res.X, !.i = 1,
                               !.overlapped = @ \/ OtherInCall(t)]]
    /\ UNCHANGED <<preprocessor, sklearn_pipeline, service, transformer, call, hist>>

\* One round of the loop of FeaturesPreprocessor.transform: the hasattr check
\* before the first step, and the step's transform on the thread's running
\* table.
TStep(t) ==
    /\ threads[t].pc = "preprocessor"
    /\ IF ~preprocessor.has_fitted_steps
       THEN /\ threads' = [threads EXCEPT ![t] =
                              ThreadRaised(@, "RuntimeError", OtherInCall(t))]
            /\ UNCHANGED preprocessor
       ELSE \E out \in {step_transform(preprocessor.fitted_steps[threads[t].i],
                                       threads[t].df)} :
               /\ preprocessor' = [preprocessor EXCEPT
                                      !.fitted_steps[threads[t].i] = out.step]
               /\ threads' = [threads EXCEPT ![t] =
                     IF out.raised # NoError
                     THEN ThreadRaised(@, out.raised, OtherInCall(t))
                     ELSE [@ EXCEPT !.pc = after_step(preprocessor, threads[t].i + 1),
                                    !.df = out.X, !.i = @ + 1,
                                    !.overlapped = @ \/ OtherInCall(t)]]
    /\ UNCHANGED <<remover, sklearn_pipeline, service, transformer, call, hist>>

\* The feature selector and the classifier's predict on the thread's table, and
\* the Series under the index of the thread's cleaned_x.
TClassifier(t) ==
    /\ threads[t].pc = "classifier"
    /\ \E sel \in {ColumnTransformer_transform(sklearn_pipeline.feature_columns,
                                               threads[t].df)} :
          IF sel.raised # NoError
          THEN threads' = [threads EXCEPT ![t] =
                              ThreadRaised(@, sel.raised, OtherInCall(t))]
          ELSE \E pred \in {ColonyStrengthClassifier_predict(sklearn_pipeline.classifier,
                                                             sel.array)} :
                  threads' = [threads EXCEPT ![t] =
                     IF pred.raised # NoError
                     THEN ThreadRaised(@, pred.raised, OtherInCall(t))
                     ELSE ThreadReturned(@,
                             PredSeries([k \in 1..Len(pred.array) |->
                                            [id |-> final_index(threads[t].cleaned_x)[k],
                                             val |-> pred.array[k]]],
                                        LabelDtype, "prediction"),
                             OtherInCall(t))]
    /\ UNCHANGED <<remover, preprocessor, sklearn_pipeline, service, transformer, call, hist>>

\* The caller takes the outcome; the thread may call again.
TDone(t) ==
    /\ threads[t].pc = "returned"
    /\ threads' = [threads EXCEPT ![t] = ThreadIdle]
    /\ UNCHANGED <<remover, preprocessor, sklearn_pipeline, service, transformer, call, hist>>

NextConcurrent ==
    \E t \in Threads : TCall(t) \/ TFilter(t) \/ TStep(t) \/ TClassifier(t) \/ TDone(t)

SpecConcurrent == InitConcurrent /\ [][NextConcurrent]_vars

\* C27 (concurrent predict): however the steps of the threads' predict calls
\* interleave, the shared instance stays the model that was built, and every
\* call ends as the same call made alone on that model ends: the same
\* predictions under the same identifiers, or the same error.
C27_ConcurrentPredictSafety ==
    /\ threads # NoThreads =>
          FullPipelinePyFunc_init(remover, preprocessor, sklearn_pipeline) = hist.built
    /\ \A t \in DOMAIN threads :
          threads[t].pc = "returned" =>
              /\ threads[t].raised =
                    FullPipelinePyFunc_predict(hist.built, threads[t].input).raised
              /\ threads[t].out =
                    FullPipelinePyFunc_predict(hist.built, threads[t].input).out

\* Two calls on different tables, each with steps taken while the other was in
\* progress, both returning predictions, through a step with learned state.
C27_Witness ==
    /\ threads # NoThreads
    /\ \A t \in {1, 2} :
          /\ threads[t].pc = "returned"
          /\ threads[t].overlapped
          /\ threads[t].raised = NoError
          /\ Len(threads[t].out.rows) >= 1
    /\ threads[1].input # threads[2].input
    /\ \E i \in 1..Len(preprocessor.fitted_steps) :
          preprocessor.fitted_steps[i].cls = "MeanImputer"

\* ------------------------------------------- OutlierRemover: further claims
\* C28 (transform is total on tables with the group key): on a fitted filter,
\* transform of a table that has the group-key column returns, whatever the
\* number of rows; for a table without rows it returns the table without rows,
\* and labels without entries when labels are given.
C28_TransformSucceedsOnEmptyTable ==
    (/\ call.op = "transform"
     /\ call.before.has_group_means
     /\ call.before.config.group_by_column \in columns(call.X)
     /\ call.y # None => ~loc_raises(call.y, index(call.X))) =>
        /\ call.raised = NoError
        /\ len(call.X) = 0 =>
              /\ call.outX.rows = <<>>
              /\ call.y # None => call.outY.rows = <<>>

\* The tables the filter is tried on after a failed fit: sample_data and the
\* tables of at most one row.
TablesAfterFailedFit == {sample_data} \cup {X \in FilterTables : len(X) <= 1}

\* C29 (a failed fit changes nothing): after a fit that raised, the filter
\* holds what its last successful fit learned, or nothing if there was none: a
\* never-fitted instance is still not fitted and its transform raises
\* NotFittedError; a fitted instance keeps the GroupStats of its last successful
\* fit and its transform gives what it gave before the failed call.
C29_FailedFitKeepsLearnedState ==
    (call.op = "fit" /\ call.raised # NoError) =>
        /\ remover.has_group_means = hist.fit_completed
        /\ remover.group_means = hist.group_stats
        /\ \A X \in TablesAfterFailedFit :
              /\ ~hist.fit_completed =>
                    OutlierRemover_transform(remover, X, None).raised = "NotFittedError"
              /\ OutlierRemover_transform(remover, X, None) =
                    OutlierRemover_transform(call.before, X, None)

\* A fit on a table without the temperature column, on a filter whose earlier
\* fit learned the mean of a group.
C29_Witness ==
    /\ call.op = "fit"
    /\ call.raised = "ValueError"
    /\ hist.fit_completed
    /\ call.before.has_group_means
    /\ DOMAIN call.before.group_means # {}
    /\ remover.group_means = call.before.group_means

\* ------------------------------------------------ ModelService: lifecycle
\* A ModelService used on its own.  It is constructed without a URI, or with
\* one (the load in the constructor has then succeeded: a failed load raises
\* out of the constructor and leaves no instance).  model_uri is a plain
\* attribute: the owner of a service constructed without a URI may assign one,
\* which is the state predict's lazy load is written for.
ServiceCalled(before, data, load_ok, res) ==
    [op |-> "service_predict", before |-> before, data |-> data, load_ok |-> load_ok,
     raised |-> res.raised, out |-> res.out, trace |-> res.trace]

\* The tables given to the service: the three records, with and without
\* float_col.
ServiceTables == {three_records, drop(three_records, {"float_col"})}

InitService ==
    \E m \in TrainedModels : \E uri \in ModelUris :
        /\ remover = m.outlier_remover
        /\ preprocessor = m.preprocessor
        /\ sklearn_pipeline = m.sklearn_pipeline
        /\ service = ModelService_init(uri, m, TRUE).self
        /\ transformer = NoTransformer
        /\ threads = NoThreads
        /\ call = NoCall
        /\ hist = [TrainedHistory(m) EXCEPT !.load_succeeded = (uri # NoUri)]

\* service.model_uri = uri, on a service that has none.
SetModelUri ==
    /\ call = NoCall
    /\ service.model_uri = NoUri
    /\ \E uri \in ModelUris \ {NoUri} : service' = [service EXCEPT !.model_uri = uri]
    /\ UNCHANGED <<remover, preprocessor, sklearn_pipeline, transformer, call, hist, threads>>

ServicePredict ==
    /\ call = NoCall
    /\ \E data \in ServiceTables : \E load_ok \in BOOLEAN :
          \E res \in {ModelService_predict(service, data, hist.built, load_ok)} :
             /\ service' = res.self
             /\ call' = ServiceCalled(service, data, load_ok, res)
             /\ hist' = [hist EXCEPT
                   !.load_succeeded = @ \/ ("load_model" \in Range(res.trace) /\ load_ok),
                   !.load_failed = @ \/ ("load_model" \in Range(res.trace) /\ ~load_ok)]
    /\ UNCHANGED <<remover, preprocessor, sklearn_pipeline, transformer, threads>>

NextService == SetModelUri \/ ServicePredict \/ Done

SpecService == InitService /\ [][NextService]_vars

\* C30 (lazy load): the model's predict is entered only on a loaded model, after
\* the load if there was one; a service without model and without URI raises
\* ValueError and attempts no load; a service without model but with a URI
\* loads first; a load that fails raises its error and leaves the service as it
\* was, so that its next predict loads again; and once a load has succeeded the
\* service keeps its model and no predict loads.
C30_LazyLoadLifecycle ==
    /\ hist.load_succeeded => service.model = hist.built
    /\ call.op = "service_predict" =>
          /\ "model.predict" \in Range(call.trace) =>
                /\ service.model # NotLoaded
                /\ call.trace[Len(call.trace)] = "model.predict"
                /\ call.before.model = NotLoaded =>
                      call.trace = <<"load_model", "model.predict">>
          /\ (call.before.model = NotLoaded /\ call.before.model_uri = NoUri) =>
                /\ call.raised = "ValueError"
                /\ call.trace = <<>>
                /\ service = call.before
          /\ (call.before.model = NotLoaded /\ call.before.model_uri # NoUri) =>
                /\ call.trace # <<>>
                /\ call.trace[1] = "load_model"
                /\ ~call.load_ok =>
                      /\ call.raised = "MlflowException"
                      /\ call.trace = <<"load_model">>
                      /\ service = call.before
                      /\ ModelService_predict(service, call.data, hist.built,
                                              TRUE).trace[1] = "load_model"
                /\ call.load_ok => service.model = hist.built
          /\ call.before.model # NotLoaded =>
                /\ "load_model" \notin Range(call.trace)
                /\ service.model = call.before.model

\* After a load that failed, a predict loads the model and predicts.
C30_Witness ==
    /\ call.op = "service_predict"
    /\ hist.load_failed
    /\ call.before.model = NotLoaded
    /\ call.trace = <<"load_model", "model.predict">>
    /\ call.raised = NoError
    /\ service.model = hist.built

====
